---------------------------- MODULE Spec2Model ----------------------------
(***************************************************************************)
(* Operation-data model of the colour-transform engine: the Gamma and Log  *)
(* parametric operations (GammaOpData.cpp, LogOpData.cpp) with their       *)
(* cacheID and finalize(), and the Resolve .cube file reader.              *)
(*                                                                         *)
(* A C++ double is modelled as an exact rational [n, d] in lowest terms    *)
(* with d > 0; every value the model feeds to the operations is finite.    *)
(* The one place where the code can produce a non-finite double from       *)
(* finite inputs (a division by a zero slope) yields the records of        *)
(* NegQuot below.                                                          *)
(***************************************************************************)
EXTENDS Integers, Sequences, FiniteSets, TLC

VARIABLES
    gamma,      \* the GammaOpData the methods are called on (*this)
    gammaB,     \* the GammaOpData passed as the argument B
    log,        \* the LogOpData the methods are called on (*this)
    logB,       \* the LogOpData passed as the argument r
    ret,        \* what the last call returned or threw
    cacheID,    \* m_cacheID of each of the four objects
    mutex,      \* m_mutex of gamma and of log: its holder, or NoThread
    pc,         \* where each thread stands in finalize(), and on which object
    stream,     \* each thread's local cacheIDStream
    file,       \* the lines of the .cube stream handed to the reader
    cachedFile, \* the CachedFile handed to buildFileOps
    ops,        \* the OpRcPtrVec handed to buildFileOps
    aliased     \* whether gammaB is the object gamma, and logB the object log

vars == <<gamma, gammaB, log, logB, ret, cacheID, mutex, pc, stream, file,
          cachedFile, ops, aliased>>

\* What the methods of GammaOpData and LogOpData modelled as one step never
\* touch: the threads of a concurrent finalize(), the reader's input, the
\* arguments of buildFileOps and which objects are one and the same.
others == <<mutex, pc, stream, file, cachedFile, ops, aliased>>

----------------------------------------------------------------------------
(* Doubles as rationals.                                                   *)

RECURSIVE GCD(_, _)
GCD(a, b) == IF b = 0 THEN a ELSE GCD(b, a % b)

Abs(x) == IF x < 0 THEN -x ELSE x

\* n/d in lowest terms, d > 0 (d # 0 required).
Rat(n, d) ==
    LET g == GCD(Abs(n), Abs(d))
        s == IF d < 0 THEN -1 ELSE 1
    IN  [n |-> s * (n \div g), d |-> s * (d \div g)]

R(n) == [n |-> n, d |-> 1]

\* x < y, compared by whole parts and then by the reciprocals of the
\* fractional parts, so that no product is formed.
RECURSIVE RLt(_, _)
RLt(x, y) ==
    LET qx == x.n \div x.d
        qy == y.n \div y.d
        rx == x.n % x.d
        ry == y.n % y.d
    IN  IF qx # qy THEN qx < qy
        ELSE IF ry = 0 THEN FALSE
        ELSE IF rx = 0 THEN TRUE
        ELSE RLt([n |-> y.d, d |-> ry], [n |-> x.d, d |-> rx])
RGt(x, y) == RLt(y, x)
RLe(x, y) == ~RLt(y, x)

\* x * y, cancelling across the fraction bars before multiplying.
RMul(x, y) ==
    LET g1 == GCD(Abs(x.n), y.d)
        g2 == GCD(Abs(y.n), x.d)
    IN  Rat((x.n \div g1) * (y.n \div g2), (x.d \div g2) * (y.d \div g1))

\* 1. / x for x # 0.
RInv(x) == Rat(x.d, x.n)

\* fabs(x - 1.) < 1e-6, i.e. |n - d| * 10^6 < d, computed without the product.
RNearOne(x) == Abs(x.n - x.d) <= (x.d - 1) \div 1000000


----------------------------------------------------------------------------
(* GammaOpData: pure methods.                                              *)

BASIC_FWD == "basicFwd"
BASIC_REV == "basicRev"
MONCURVE_FWD == "moncurveFwd"
MONCURVE_REV == "moncurveRev"
Styles == {BASIC_FWD, BASIC_REV, MONCURVE_FWD, MONCURVE_REV}

IdentityScale == R(1)
IdentityOffset == R(0)

\* GammaOpData(style, redParams, greenParams, blueParams, alphaParams)
GammaOpData(style, r, g, b, a, meta) ==
    [style |-> style, red |-> r, green |-> g, blue |-> b, alpha |-> a,
     meta |-> meta]

IsBasicIdentity(p) == p[1] = IdentityScale

IsMonCurveIdentity(p) == p[1] = IdentityScale /\ p[2] = IdentityOffset

getIdentityParameters(style) ==
    IF style \in {BASIC_FWD, BASIC_REV}
    THEN <<IdentityScale>>
    ELSE <<IdentityScale, IdentityOffset>>

isIdentityParameters(parameters, style) ==
    IF style \in {BASIC_FWD, BASIC_REV}
    THEN Len(parameters) = 1 /\ IsBasicIdentity(parameters)
    ELSE Len(parameters) = 2 /\ IsMonCurveIdentity(parameters)

isAlphaComponentIdentity(G) == isIdentityParameters(G.alpha, G.style)

isNonChannelDependent(G) ==
    /\ G.red = G.green
    /\ G.red = G.blue
    /\ isAlphaComponentIdentity(G)

\* The exception-or-success value of a void method.
areAllComponentsEqual(G) ==
    G.red = G.green /\ G.red = G.blue /\ G.red = G.alpha

\* What IsMonCurveIdentity reads of a vector: p[1] of a vector of one
\* element is read past its end, and is whatever double lies there.
StrayDoubles == { R(0), R(1) }

ReadParams(p, stray) == IF Len(p) >= 2 THEN p ELSE p \o <<stray>>

GammaOpData_isIdentity(G, stray) ==
    IF G.style \in {BASIC_FWD, BASIC_REV}
    THEN areAllComponentsEqual(G) /\ IsBasicIdentity(G.red)
    ELSE areAllComponentsEqual(G)
             /\ IsMonCurveIdentity(ReadParams(G.red, stray))

isClamping(G) == G.style = BASIC_FWD \/ G.style = BASIC_REV

\* isNoOp that leaves isClamping() out.
GammaOpData_isNoOp_IdentityOnly(G, stray) == GammaOpData_isIdentity(G, stray)

GammaOpData_isNoOp(G, stray) ==
    GammaOpData_isIdentity(G, stray) /\ ~isClamping(G)

Ok == [ok |-> TRUE]
Throw(kind) == [ok |-> FALSE, kind |-> kind]
ThrowBound(kind, value, bound) ==
    [ok |-> FALSE, kind |-> kind, value |-> value, bound |-> bound]

\* The loop of validateParams with the bounds themselves rejected.
RECURSIVE validateParamsFrom_Exclusive(_, _, _, _, _)
validateParamsFrom_Exclusive(p, i, reqdSize, lowBounds, highBounds) ==
    IF i > reqdSize THEN Ok
    ELSE IF RLe(p[i], lowBounds[i])
         THEN ThrowBound("LessThanLowerBound", p[i], lowBounds[i])
    ELSE IF RLe(highBounds[i], p[i])
         THEN ThrowBound("GreaterThanUpperBound", p[i], highBounds[i])
    ELSE validateParamsFrom_Exclusive(p, i + 1, reqdSize, lowBounds,
                                      highBounds)

\* The loop of validateParams from index i (1-based) on.
RECURSIVE validateParamsFrom(_, _, _, _, _)
validateParamsFrom(p, i, reqdSize, lowBounds, highBounds) ==
    IF i > reqdSize THEN Ok
    ELSE IF RLt(p[i], lowBounds[i])
         THEN ThrowBound("LessThanLowerBound", p[i], lowBounds[i])
    ELSE IF RGt(p[i], highBounds[i])
         THEN ThrowBound("GreaterThanUpperBound", p[i], highBounds[i])
    ELSE validateParamsFrom(p, i + 1, reqdSize, lowBounds, highBounds)

validateParams(p, reqdSize, lowBounds, highBounds) ==
    IF Len(p) # reqdSize
    THEN Throw("WrongNumberOfParameters")
    ELSE validateParamsFrom(p, 1, reqdSize, lowBounds, highBounds)

BasicLowBounds == <<Rat(1, 100)>>
BasicHighBounds == <<R(100)>>
MoncurveLowBounds == <<R(1), R(0)>>
MoncurveHighBounds == <<R(10), Rat(9, 10)>>

\* The first exception of a sequence of calls, or Ok.
RECURSIVE FirstThrow(_)
FirstThrow(results) ==
    IF results = <<>> THEN Ok
    ELSE IF ~Head(results).ok THEN Head(results)
    ELSE FirstThrow(Tail(results))

validateParameters(G) ==
    LET basic == G.style \in {BASIC_FWD, BASIC_REV}
        reqdSize == IF basic THEN 1 ELSE 2
        lo == IF basic THEN BasicLowBounds ELSE MoncurveLowBounds
        hi == IF basic THEN BasicHighBounds ELSE MoncurveHighBounds
    IN  FirstThrow(<<validateParams(G.red, reqdSize, lo, hi),
                     validateParams(G.green, reqdSize, lo, hi),
                     validateParams(G.blue, reqdSize, lo, hi),
                     validateParams(G.alpha, reqdSize, lo, hi)>>)

\* OpData::validate() of the base class checks nothing of a GammaOpData.
GammaOpData_validate(G) == validateParameters(G)

\* InverseStyle with the MONCURVE_REV case left to the initial BASIC_FWD.
InverseStyle_MissingCase(style) ==
    CASE style = BASIC_FWD -> BASIC_REV
      [] style = BASIC_REV -> BASIC_FWD
      [] style = MONCURVE_FWD -> MONCURVE_REV
      [] OTHER -> BASIC_FWD

InverseStyle(style) ==
    CASE style = BASIC_FWD -> BASIC_REV
      [] style = BASIC_REV -> BASIC_FWD
      [] style = MONCURVE_FWD -> MONCURVE_REV
      [] style = MONCURVE_REV -> MONCURVE_FWD

GammaOpData_clone(G) == G

GammaOpData_inverse(G) ==
    [GammaOpData_clone(G) EXCEPT !.style = InverseStyle(G.style)]

\* isInverse that compares the red, green and blue vectors only.
GammaOpData_isInverse_RGBOnly(A, B) ==
    /\ \/ (A.style = BASIC_FWD /\ B.style = BASIC_REV)
       \/ (A.style = BASIC_REV /\ B.style = BASIC_FWD)
       \/ (A.style = MONCURVE_FWD /\ B.style = MONCURVE_REV)
       \/ (A.style = MONCURVE_REV /\ B.style = MONCURVE_FWD)
    /\ A.red = B.red
    /\ A.green = B.green
    /\ A.blue = B.blue

GammaOpData_isInverse(A, B) ==
    /\ \/ (A.style = BASIC_FWD /\ B.style = BASIC_REV)
       \/ (A.style = BASIC_REV /\ B.style = BASIC_FWD)
       \/ (A.style = MONCURVE_FWD /\ B.style = MONCURVE_REV)
       \/ (A.style = MONCURVE_REV /\ B.style = MONCURVE_FWD)
    /\ A.red = B.red
    /\ A.green = B.green
    /\ A.blue = B.blue
    /\ A.alpha = B.alpha

mayCompose(A, B) ==
    IF ~isNonChannelDependent(A) THEN FALSE
    ELSE IF A.style # BASIC_FWD /\ A.style # BASIC_REV THEN FALSE
    ELSE IF B.style # BASIC_FWD /\ B.style # BASIC_REV THEN FALSE
    ELSE TRUE

\* RangeOpData::EmptyValue(): the bound that does not clamp.
EmptyValue == "empty"

RangeOpData(minIn, maxIn, minOut, maxOut, meta) ==
    [type |-> "Range", minIn |-> minIn, maxIn |-> maxIn,
     minOut |-> minOut, maxOut |-> maxOut, meta |-> meta]

\* MatrixOpData(): the identity matrix with no offsets.
MatrixOpData(meta) == [type |-> "Matrix", identity |-> TRUE, meta |-> meta]

\* getIdentityReplacement with BASIC_REV among the pass-through styles.
GammaOpData_getIdentityReplacement_ForwardOnly(G) ==
    IF G.style = BASIC_FWD
    THEN RangeOpData(R(0), EmptyValue, R(0), EmptyValue, G.meta)
    ELSE MatrixOpData(G.meta)

GammaOpData_getIdentityReplacement(G) ==
    IF G.style \in {BASIC_FWD, BASIC_REV}
    THEN RangeOpData(R(0), EmptyValue, R(0), EmptyValue, G.meta)
    ELSE MatrixOpData(G.meta)

\* FormatMetadataImpl::combine, kept as the ordered pair of its operands.
CombineMetadata(m1, m2) == <<m1, m2>>

\* effectiveGamma that takes the stored gamma whatever the style.
effectiveGamma_AsStored(G) == G.red[1]

\* The exponent an operand contributes: lines 457-467 of compose.
effectiveGamma(G) ==
    IF G.style = BASIC_REV THEN RInv(G.red[1]) ELSE G.red[1]

\* composedGamma without the rounding of a near-1 result to 1.
composedGamma_NoSnap(g1, g2) ==
    LET prod == RMul(g1, g2)
        rev == RLt(prod, R(1))
    IN  [style |-> IF rev THEN BASIC_REV ELSE BASIC_FWD,
         gOut |-> IF rev THEN RInv(prod) ELSE prod]

\* composedGamma that keeps a product below 1 as it is, as BASIC_FWD.
composedGamma_NoReverse(g1, g2) ==
    LET prod == RMul(g1, g2)
    IN  [style |-> BASIC_FWD,
         gOut |-> IF RNearOne(prod) THEN R(1) ELSE prod]

\* The style and stored gamma of the composition: lines 469-484 of compose.
composedGamma(g1, g2) ==
    LET prod == RMul(g1, g2)
        rev == RLt(prod, R(1))
        gOut == IF rev THEN RInv(prod) ELSE prod
    IN  [style |-> IF rev THEN BASIC_REV ELSE BASIC_FWD,
         gOut |-> IF RNearOne(gOut) THEN R(1) ELSE gOut]

compose(A, B) ==
    IF ~mayCompose(A, B)
    THEN Throw("CanOnlyBeCombinedWithSomeGammaOps")
    ELSE
      LET c == composedGamma(effectiveGamma(A), effectiveGamma(B))
          params == <<c.gOut>>
          paramsA == <<R(1)>>
      IN  [ok |-> TRUE,
           out |-> GammaOpData(c.style, params, params, params, paramsA,
                               CombineMetadata(A.meta, B.meta))]

\* compose where the second effective exponent carries the relative rounding
\* error err of its floating-point division (err = 1: none).
composeRounded(A, B, err) ==
    IF ~mayCompose(A, B)
    THEN Throw("CanOnlyBeCombinedWithSomeGammaOps")
    ELSE
      LET c == composedGamma(effectiveGamma(A), RMul(effectiveGamma(B), err))
          params == <<c.gOut>>
          paramsA == <<R(1)>>
      IN  [ok |-> TRUE,
           out |-> GammaOpData(c.style, params, params, params, paramsA,
                               CombineMetadata(A.meta, B.meta))]

----------------------------------------------------------------------------
(* LogOpData: pure methods.                                                *)

TRANSFORM_DIR_UNKNOWN == "unknown"
TRANSFORM_DIR_FORWARD == "forward"
TRANSFORM_DIR_INVERSE == "inverse"

\* enum LogAffineParameter: the index of each parameter in a channel vector.
LOG_SIDE_SLOPE == 0
LOG_SIDE_OFFSET == 1
LIN_SIDE_SLOPE == 2
LIN_SIDE_OFFSET == 3

\* params[idx] of a C++ vector (0-based).
At(params, idx) == params[idx + 1]

expectedSize == 4

GetInverseTransformDirection(dir) ==
    CASE dir = TRANSFORM_DIR_FORWARD -> TRANSFORM_DIR_INVERSE
      [] dir = TRANSFORM_DIR_INVERSE -> TRANSFORM_DIR_FORWARD
      [] OTHER -> TRANSFORM_DIR_UNKNOWN

IsScalarEqualToZero(v) == v = R(0)

\* LogOpData(dir, base, redParams, greenParams, blueParams), once constructed.
LogOpData(dir, base, r, g, b, meta) ==
    [direction |-> dir, base |-> base, red |-> r, green |-> g, blue |-> b,
     meta |-> meta]

ValidateParams(params, direction) ==
    IF Len(params) # expectedSize
    THEN Throw("Expecting4Parameters")
    ELSE IF direction # TRANSFORM_DIR_UNKNOWN
    THEN IF IsScalarEqualToZero(At(params, LIN_SIDE_SLOPE))
         THEN Throw("LinearSlopeCannotBe0")
         ELSE IF IsScalarEqualToZero(At(params, LOG_SIDE_SLOPE))
         THEN Throw("LogSlopeCannotBe0")
         ELSE Ok
    ELSE Throw("InvalidDirection")

\* The check of m_base at the end of validate.
ValidateBase(base) ==
    IF base = R(1) THEN Throw("BaseCannotBe1")
    ELSE IF RLe(base, R(0)) THEN Throw("BaseMustBeGreaterThan0")
    ELSE Ok

\* validate that checks the base before the channel vectors.
LogOpData_validate_BaseFirst(L) ==
    FirstThrow(<<ValidateBase(L.base),
                 ValidateParams(L.red, L.direction),
                 ValidateParams(L.green, L.direction),
                 ValidateParams(L.blue, L.direction)>>)

\* OpData::validate() of the base class checks nothing of a LogOpData.
LogOpData_validate(L) ==
    FirstThrow(<<ValidateParams(L.red, L.direction),
                 ValidateParams(L.green, L.direction),
                 ValidateParams(L.blue, L.direction),
                 ValidateBase(L.base)>>)

\* std::vector<double>::resize(n): truncate, or pad with 0.0.
Resize(v, n) ==
    [i \in 1..n |-> IF i <= Len(v) THEN v[i] ELSE R(0)]

\* setValue(val, values) on vectors that hold index val.
setValue(L, val, values) ==
    [L EXCEPT !.red[val + 1] = values[1],
              !.green[val + 1] = values[2],
              !.blue[val + 1] = values[3]]

setParameters(L, logSlope, logOffset, linSlope, linOffset) ==
    LET L0 == [L EXCEPT !.red = Resize(L.red, 4),
                        !.green = Resize(L.green, 4),
                        !.blue = Resize(L.blue, 4)]
        L1 == setValue(L0, LOG_SIDE_SLOPE, logSlope)
        L2 == setValue(L1, LOG_SIDE_OFFSET, logOffset)
        L3 == setValue(L2, LIN_SIDE_SLOPE, linSlope)
    IN  setValue(L3, LIN_SIDE_OFFSET, linOffset)

DefaultLogSlope == <<R(1), R(1), R(1)>>
DefaultLinSlope == <<R(1), R(1), R(1)>>
DefaultLinOffset == <<R(0), R(0), R(0)>>
DefaultLogOffset == <<R(0), R(0), R(0)>>

\* LogOpData(base, logSlope, logOffset, linSlope, linOffset, direction)
LogOpDataFromArrays(base, logSlope, logOffset, linSlope, linOffset, dir, meta) ==
    setParameters(LogOpData(dir, base, <<>>, <<>>, <<>>, meta),
                  logSlope, logOffset, linSlope, linOffset)

\* LogOpData(base, direction)
LogOpDataDefault(base, dir, meta) ==
    LogOpDataFromArrays(base, DefaultLogSlope, DefaultLogOffset,
                        DefaultLinSlope, DefaultLinOffset, dir, meta)

allComponentsEqual(L) == L.red = L.green /\ L.red = L.blue

isLogBase(L, base) ==
    /\ allComponentsEqual(L)
    /\ At(L.red, LOG_SIDE_SLOPE) = R(1)
    /\ At(L.red, LIN_SIDE_SLOPE) = R(1)
    /\ At(L.red, LIN_SIDE_OFFSET) = R(0)
    /\ At(L.red, LOG_SIDE_OFFSET) = R(0)
    /\ L.base = base

isLog2(L) == isLogBase(L, R(2))

isLog10(L) == isLogBase(L, R(10))

\* The double -offset / slope: a zero slope gives -infinity (-1/0),
\* +infinity (1/0) or a NaN (0/0).
NegQuot(offset, slope) ==
    IF slope.n # 0 THEN Rat(-(offset.n * slope.d), offset.d * slope.n)
    ELSE IF offset.n > 0 THEN [n |-> -1, d |-> 0]
    ELSE IF offset.n < 0 THEN [n |-> 1, d |-> 0]
    ELSE [n |-> 0, d |-> 0]

\* getIdentityReplacement that divides the slope by the offset.
LogOpData_getIdentityReplacement_Swapped(L) ==
    IF isLog2(L) \/ isLog10(L)
    THEN IF L.direction = TRANSFORM_DIR_FORWARD
         THEN RangeOpData(R(0), EmptyValue, R(0), EmptyValue, L.meta)
         ELSE MatrixOpData(L.meta)
    ELSE IF L.direction = TRANSFORM_DIR_FORWARD
         THEN LET minValue == NegQuot(At(L.red, LIN_SIDE_SLOPE),
                                      At(L.red, LIN_SIDE_OFFSET))
              IN  RangeOpData(minValue, EmptyValue, minValue, EmptyValue,
                              L.meta)
         ELSE MatrixOpData(L.meta)

LogOpData_getIdentityReplacement(L) ==
    IF isLog2(L) \/ isLog10(L)
    THEN IF L.direction = TRANSFORM_DIR_FORWARD
         THEN RangeOpData(R(0), EmptyValue, R(0), EmptyValue, L.meta)
         ELSE MatrixOpData(L.meta)
    ELSE IF L.direction = TRANSFORM_DIR_FORWARD
         THEN LET minValue == NegQuot(At(L.red, LIN_SIDE_OFFSET),
                                      At(L.red, LIN_SIDE_SLOPE))
              IN  RangeOpData(minValue, EmptyValue, minValue, EmptyValue,
                              L.meta)
         ELSE MatrixOpData(L.meta)

LogOpData_isIdentity(L) == FALSE

LogOpData_isNoOp(L) == FALSE

LogOpData_clone(L) ==
    LogOpData(L.direction, L.base, L.red, L.green, L.blue, L.meta)

\* inverse that returns the flipped clone without validating it.
LogOpData_inverse_NoValidate(L) ==
    [ok |-> TRUE,
     out |-> [LogOpData_clone(L) EXCEPT
                !.direction = GetInverseTransformDirection(L.direction)]]

LogOpData_inverse(L) ==
    LET invOp == [LogOpData_clone(L) EXCEPT
                    !.direction = GetInverseTransformDirection(L.direction)]
        v == LogOpData_validate(invOp)
    IN  IF v.ok THEN [ok |-> TRUE, out |-> invOp] ELSE v

\* isInverse that forgets r->allComponentsEqual().
LogOpData_isInverse_OneSided(A, B) ==
    /\ GetInverseTransformDirection(A.direction) = B.direction
    /\ allComponentsEqual(A)
    /\ A.red = B.red
    /\ A.base = B.base

\* isInverse that does not compare the bases.
LogOpData_isInverse_AnyBase(A, B) ==
    /\ GetInverseTransformDirection(A.direction) = B.direction
    /\ allComponentsEqual(A)
    /\ allComponentsEqual(B)
    /\ A.red = B.red

LogOpData_isInverse(A, B) ==
    /\ GetInverseTransformDirection(A.direction) = B.direction
    /\ allComponentsEqual(A)
    /\ allComponentsEqual(B)
    /\ A.red = B.red
    /\ A.base = B.base

----------------------------------------------------------------------------
(* operator== and finalize(): the cacheID.  A string written by an         *)
(* ostringstream is the tuple of the pieces written to it; a double        *)
(* written at precision FLOAT_DECIMALS is the decimal it is rounded to,    *)
(* [neg, mant, exp] standing for (-)mant * 10^(exp - FLOAT_DECIMALS + 1).  *)

FLOAT_DECIMALS == 7

RECURSIVE Pow10(_)
Pow10(k) == IF k = 0 THEN 1 ELSE 10 * Pow10(k - 1)

\* Scales n/d (> 0) into [1, 10): n/d = n'/d' * 10^e.
RECURSIVE Normalize(_, _, _)
Normalize(n, d, e) ==
    IF n >= 10 * d THEN Normalize(n, d * 10, e + 1)
    ELSE IF n < d THEN Normalize(n * 10, d, e - 1)
    ELSE [n |-> n, d |-> d, e |-> e]

\* k more decimal digits of rem/d after the digits acc.
RECURSIVE Digits(_, _, _, _)
Digits(rem, d, k, acc) ==
    IF k = 0 THEN [m |-> acc, rem |-> rem]
    ELSE Digits((rem * 10) % d, d, k - 1, acc * 10 + (rem * 10) \div d)

\* operator<< (double) at precision FLOAT_DECIMALS: the value rounded to
\* FLOAT_DECIMALS significant digits, to nearest and to even on a tie.
FormatDouble(x) ==
    IF x.n = 0 THEN [neg |-> FALSE, mant |-> 0, exp |-> 0]
    ELSE LET s  == Normalize(Abs(x.n), x.d, 0)
             t  == Digits(s.n % s.d, s.d, FLOAT_DECIMALS - 1, s.n \div s.d)
             up == \/ 2 * t.rem > s.d
                   \/ 2 * t.rem = s.d /\ t.m % 2 = 1
             m  == IF up THEN t.m + 1 ELSE t.m
         IN  IF m = Pow10(FLOAT_DECIMALS)
             THEN [neg |-> x.n < 0, mant |-> Pow10(FLOAT_DECIMALS - 1),
                   exp |-> s.e + 1]
             ELSE [neg |-> x.n < 0, mant |-> m, exp |-> s.e]

\* The parameters of one channel, each at FLOAT_DECIMALS, joined by ", ".
GetParametersString(params) ==
    [i \in 1..Len(params) |-> FormatDouble(params[i])]

ConvertStyleToString(style) ==
    CASE style = BASIC_FWD -> "basicFwd"
      [] style = BASIC_REV -> "basicRev"
      [] style = MONCURVE_FWD -> "moncurveFwd"
      [] style = MONCURVE_REV -> "moncurveRev"

\* OpData::getID(): the id carried by the operation's metadata.
getID(op) == op.meta

\* OpData::operator==: the part of the comparison done by the base class.
OpData_equals(A, B) == A.meta = B.meta

GammaOpData_equals(A, B) ==
    /\ OpData_equals(A, B)
    /\ A.style = B.style
    /\ A.red = B.red
    /\ A.green = B.green
    /\ A.blue = B.blue
    /\ A.alpha = B.alpha

\* The string finalize() assembles in cacheIDStream.
GammaOpData_cacheIDStream(G) ==
    << getID(G), ConvertStyleToString(G.style),
       "r:", GetParametersString(G.red),
       "g:", GetParametersString(G.green),
       "b:", GetParametersString(G.blue),
       "a:", GetParametersString(G.alpha) >>

\* finalize() run by one caller on an operation whose m_cacheID is cid:
\* what the call returns or throws, and m_cacheID afterwards.
GammaOpData_finalize(G, cid) ==
    LET v == GammaOpData_validate(G)
    IN  IF v.ok THEN [res |-> Ok, cacheID |-> GammaOpData_cacheIDStream(G)]
        ELSE [res |-> v, cacheID |-> cid]

TransformDirectionToString(dir) ==
    CASE dir = TRANSFORM_DIR_FORWARD -> "forward"
      [] dir = TRANSFORM_DIR_INVERSE -> "inverse"
      [] OTHER -> "unknown"

getParameterString(L, index) ==
    IF allComponentsEqual(L)
    THEN << FormatDouble(At(L.red, index)) >>
    ELSE << FormatDouble(At(L.red, index)), FormatDouble(At(L.green, index)),
            FormatDouble(At(L.blue, index)) >>

getBaseString(L) == << FormatDouble(L.base) >>

LogOpData_equals(A, B) ==
    /\ OpData_equals(A, B)
    /\ A.direction = B.direction
    /\ A.base = B.base
    /\ A.red = B.red
    /\ A.green = B.green
    /\ A.blue = B.blue

LogOpData_cacheIDStream(L) ==
    << getID(L), TransformDirectionToString(L.direction),
       "Base", getBaseString(L),
       "LogSlope", getParameterString(L, LOG_SIDE_SLOPE),
       "LogOffset", getParameterString(L, LOG_SIDE_OFFSET),
       "LinearSlope", getParameterString(L, LIN_SIDE_SLOPE),
       "LinearOffset", getParameterString(L, LIN_SIDE_OFFSET) >>

LogOpData_finalize(L, cid) ==
    LET v == LogOpData_validate(L)
    IN  IF v.ok THEN [res |-> Ok, cacheID |-> LogOpData_cacheIDStream(L)]
        ELSE [res |-> v, cacheID |-> cid]

----------------------------------------------------------------------------
(* enum OptimizationFlags.  The enumerators are the integers of the        *)
(* source, and | and & are computed bit by bit.                            *)

RECURSIVE BitOr(_, _)
BitOr(a, b) ==
    IF a = 0 THEN b
    ELSE IF b = 0 THEN a
    ELSE (IF a % 2 = 1 \/ b % 2 = 1 THEN 1 ELSE 0)
             + 2 * BitOr(a \div 2, b \div 2)

RECURSIVE BitAnd(_, _)
BitAnd(a, b) ==
    IF a = 0 \/ b = 0 THEN 0
    ELSE (IF a % 2 = 1 /\ b % 2 = 1 THEN 1 ELSE 0)
             + 2 * BitAnd(a \div 2, b \div 2)

OPTIMIZATION_NONE == 0
OPTIMIZATION_IDENTITY == 1
OPTIMIZATION_PAIR_IDENTITY_CLAMP == 2
OPTIMIZATION_PAIR_IDENTITY_LUT1D == 4
OPTIMIZATION_PAIR_IDENTITY_LUT3D == 8
OPTIMIZATION_PAIR_IDENTITY_GAMMA == 16
OPTIMIZATION_PAIR_IDENTITY_LOG == 32
OPTIMIZATION_COMP_MATRIX == 64
OPTIMIZATION_COMP_LUT1D == 128
OPTIMIZATION_COMP_LUT3D == 256
OPTIMIZATION_COMP_GAMMA == 512
OPTIMIZATION_COMP_SEPARABLE_PREFIX == 1024
OPTIMIZATION_ALL == 65535

OPTIMIZATION_LOSSLESS ==
    BitOr(OPTIMIZATION_IDENTITY,
    BitOr(OPTIMIZATION_PAIR_IDENTITY_CLAMP,
    BitOr(OPTIMIZATION_PAIR_IDENTITY_LUT1D,
    BitOr(OPTIMIZATION_PAIR_IDENTITY_LUT3D,
    BitOr(OPTIMIZATION_PAIR_IDENTITY_GAMMA,
    BitOr(OPTIMIZATION_PAIR_IDENTITY_LOG,
    BitOr(OPTIMIZATION_COMP_MATRIX, OPTIMIZATION_COMP_GAMMA)))))))

OPTIMIZATION_VERY_GOOD ==
    BitOr(OPTIMIZATION_LOSSLESS,
    BitOr(OPTIMIZATION_COMP_LUT1D, OPTIMIZATION_COMP_SEPARABLE_PREFIX))

\* OPTIMIZATION_GOOD without OPTIMIZATION_COMP_LUT3D.
OPTIMIZATION_GOOD_NoLut3D == OPTIMIZATION_VERY_GOOD

OPTIMIZATION_GOOD == BitOr(OPTIMIZATION_VERY_GOOD, OPTIMIZATION_COMP_LUT3D)

OPTIMIZATION_DRAFT == OPTIMIZATION_ALL

OPTIMIZATION_DEFAULT == OPTIMIZATION_VERY_GOOD

----------------------------------------------------------------------------
(* The Resolve .cube reader, LocalFileFormat::read.  A line of the stream  *)
(* is [hash, parts]: whether its first character is '#', and its words     *)
(* as written.  A word is [k |-> "word", w] or a numeral [k |-> "num", v,  *)
(* int], int telling whether it is written as an integer ("2", not "2.0"). *)

Word(w) == [k |-> "word", w |-> w]
IntNumeral(v) == [k |-> "num", v |-> v, int |-> TRUE]
FloatNumeral(v) == [k |-> "num", v |-> v, int |-> FALSE]

\* pystring::lower on the words the model writes.
lower(w) ==
    CASE w = "TITLE" -> "title"
      [] w = "LUT_1D_SIZE" -> "lut_1d_size"
      [] w = "LUT_2D_SIZE" -> "lut_2d_size"
      [] w = "LUT_3D_SIZE" -> "lut_3d_size"
      [] w = "LUT_1D_INPUT_RANGE" -> "lut_1d_input_range"
      [] w = "LUT_3D_INPUT_RANGE" -> "lut_3d_input_range"
      [] w = "WRONG_TAG" -> "wrong_tag"
      [] OTHER -> w

\* pystring::split(pystring::lower(pystring::strip(line)), parts).
split(line) ==
    [i \in 1..Len(line.parts) |->
        IF line.parts[i].k = "word"
        THEN Word(lower(line.parts[i].w)) ELSE line.parts[i]]

\* Whether the conversion succeeds: a numeral converts and a word does not.
\* The numerals the model gives to StringToInt are written as integers.
StringToInt(part) == part.k = "num"

StringToFloat(part) == part.k = "num"

StringVecToFloatVec(parts) == \A i \in 1..Len(parts) : parts[i].k = "num"

FloatVec(parts) == [i \in 1..Len(parts) |-> parts[i].v]

\* ThrowErrorMessage that writes the line part whatever the line number.
ThrowErrorMessage_AlwaysLine(error, fileName, line, lineContent) ==
    [ok |-> FALSE,
     what |-> [head |-> << "Error parsing Resolve .cube file (", fileName,
                           ").  " >>,
               at |-> << "At line (", line, "): '", lineContent, "'.  " >>,
               error |-> error]]

\* The exception of ThrowErrorMessage.  Its message is head, at and error
\* written one after the other, each the pieces written to the stream;
\* error is given as its pieces too.
ThrowErrorMessage(error, fileName, line, lineContent) ==
    [ok |-> FALSE,
     what |-> [head |-> << "Error parsing Resolve .cube file (", fileName,
                           ").  " >>,
               at |-> IF -1 # line
                      THEN << "At line (", line, "): '", lineContent,
                              "'.  " >>
                      ELSE << >>,
               error |-> error]]

\* The locals of read() before the first line.
ReadLocals ==
    [raw1d |-> << >>, raw3d |-> << >>, size3d |-> 0, size1d |-> 0,
     has1d |-> FALSE, has3d |-> FALSE,
     range1d_min |-> 0, range1d_max |-> 1,
     range3d_min |-> 0, range3d_max |-> 1,
     headerComplete |-> FALSE, tripletNumber |-> 0,
     thrown |-> [ok |-> TRUE]]

Thrown(st, error, fileName, lineNumber, line) ==
    [st EXCEPT !.thrown =
        ThrowErrorMessage(<<error>>, fileName, lineNumber, line)]

\* ReadTriplet that puts each data line before the ones already read.
ReadTriplet_Reversed(st, parts, fileName, lineNumber, line) ==
    IF ~StringVecToFloatVec(parts) \/ Len(parts) # 3
    THEN Thrown([st EXCEPT !.headerComplete = TRUE],
                "Malformed color triples specified.", fileName, lineNumber,
                line)
    ELSE IF st.has1d /\ st.tripletNumber < st.size1d
    THEN [st EXCEPT !.headerComplete = TRUE,
                    !.raw1d = FloatVec(parts) \o @,
                    !.tripletNumber = @ + 1]
    ELSE [st EXCEPT !.headerComplete = TRUE,
                    !.raw3d = FloatVec(parts) \o @,
                    !.tripletNumber = @ + 1]

\* The last branch of the loop body: a line that starts with no tag is a
\* data line, and the header is complete.
ReadTriplet(st, parts, fileName, lineNumber, line) ==
    IF ~StringVecToFloatVec(parts) \/ Len(parts) # 3
    THEN Thrown([st EXCEPT !.headerComplete = TRUE],
                "Malformed color triples specified.", fileName, lineNumber,
                line)
    ELSE IF st.has1d /\ st.tripletNumber < st.size1d
    THEN [st EXCEPT !.headerComplete = TRUE,
                    !.raw1d = @ \o FloatVec(parts),
                    !.tripletNumber = @ + 1]
    ELSE [st EXCEPT !.headerComplete = TRUE,
                    !.raw3d = @ \o FloatVec(parts),
                    !.tripletNumber = @ + 1]

\* The body of the while loop for one line.
ReadLine(st, line, fileName, lineNumber) ==
    LET parts == split(line)
        tag == IF parts[1].k = "word" THEN parts[1].w ELSE ""
    IN  IF line.hash
        THEN IF st.headerComplete
             THEN Thrown(st, "Comments not allowed after header.", fileName,
                         lineNumber, line)
             ELSE st
        ELSE IF Len(parts) = 0 THEN st
        ELSE IF tag = "title"
        THEN Thrown(st, "Unsupported tag: 'TITLE'.", fileName, lineNumber,
                    line)
        ELSE IF tag = "lut_1d_size"
        THEN IF Len(parts) # 2 \/ ~StringToInt(parts[2])
             THEN Thrown(st, "Malformed LUT_1D_SIZE tag.", fileName,
                         lineNumber, line)
             ELSE [st EXCEPT !.size1d = parts[2].v, !.has1d = TRUE]
        ELSE IF tag = "lut_2d_size"
        THEN Thrown(st, "Unsupported tag: 'LUT_2D_SIZE'.", fileName,
                    lineNumber, line)
        ELSE IF tag = "lut_3d_size"
        THEN IF Len(parts) # 2 \/ ~StringToInt(parts[2])
             THEN Thrown(st, "Malformed LUT_3D_SIZE tag.", fileName,
                         lineNumber, line)
             ELSE [st EXCEPT !.size3d = parts[2].v, !.has3d = TRUE]
        ELSE IF tag = "lut_1d_input_range"
        THEN IF Len(parts) # 3 \/ ~StringToFloat(parts[2])
                               \/ ~StringToFloat(parts[3])
             THEN Thrown(st, "Malformed LUT_1D_INPUT_RANGE tag.", fileName,
                         lineNumber, line)
             ELSE [st EXCEPT !.range1d_min = parts[2].v,
                             !.range1d_max = parts[3].v]
        ELSE IF tag = "lut_3d_input_range"
        THEN IF Len(parts) # 3 \/ ~StringToFloat(parts[2])
                               \/ ~StringToFloat(parts[3])
             THEN Thrown(st, "Malformed LUT_3D_INPUT_RANGE tag.", fileName,
                         lineNumber, line)
             ELSE [st EXCEPT !.range3d_min = parts[2].v,
                             !.range3d_max = parts[3].v]
        ELSE ReadTriplet(st, parts, fileName, lineNumber, line)

\* while(nextline(istream, line)) { ++lineNumber; ... } from line i on.
RECURSIVE ReadLines(_, _, _, _)
ReadLines(st, lines, fileName, i) ==
    IF i > Len(lines) \/ ~st.thrown.ok THEN st
    ELSE ReadLines(ReadLine(st, lines[i], fileName, i), lines, fileName,
                   i + 1)

\* A new Lut1DOpData of the given dimension: three values per entry.
Lut1DOpData(dimension) ==
    [dimension |-> dimension,
     array |-> [i \in 1..(3 * dimension) |-> "unset"]]

\* lutArray[i] = raw1d[i] for every i below raw1d.size().
FillArray(lut, raw) ==
    [lut EXCEPT !.array =
        [i \in 1..Len(lut.array) |->
            IF i <= Len(raw) THEN raw[i] ELSE lut.array[i]]]

\* A new Lut3DOpData after setArrayFromRedFastestOrder(raw3d).
Lut3DOpData(size, raw) == [dimension |-> size, redFastest |-> raw]

NoLut == [dimension |-> 0]

\* The size checks after the loop, and the LocalCachedFile returned.
Interpret(st, fileName) ==
    IF st.has1d /\ st.size1d # Len(st.raw1d) \div 3
    THEN ThrowErrorMessage(
             << "Incorrect number of lut1d entries. ", "Found ",
                Len(st.raw1d) \div 3, ", expected ", st.size1d, "." >>,
             fileName, -1, "")
    ELSE IF st.has3d
            /\ st.size3d * st.size3d * st.size3d # Len(st.raw3d) \div 3
    THEN ThrowErrorMessage(
             << "Incorrect number of lut3d entries. ", "Found ",
                Len(st.raw3d) \div 3, ", expected ",
                st.size3d * st.size3d * st.size3d, "." >>,
             fileName, -1, "")
    ELSE IF ~st.has1d /\ ~st.has3d
    THEN ThrowErrorMessage(<<"Lut type (1D/3D) unspecified.">>, fileName, -1,
                           "")
    ELSE LET with1d == st.has1d /\ st.size1d > 0
         IN  [ok |-> TRUE,
              lut1D |-> IF with1d
                        THEN FillArray(Lut1DOpData(st.size1d), st.raw1d)
                        ELSE NoLut,
              range1d_min |-> IF with1d THEN st.range1d_min ELSE 0,
              range1d_max |-> IF with1d THEN st.range1d_max ELSE 1,
              lut3D |-> IF st.has3d THEN Lut3DOpData(st.size3d, st.raw3d)
                        ELSE NoLut,
              range3d_min |-> IF st.has3d THEN st.range3d_min ELSE 0,
              range3d_max |-> IF st.has3d THEN st.range3d_max ELSE 1]

\* LocalFileFormat::read(istream, fileName).
read(istream, fileName) ==
    IF ~istream.good
    THEN [ok |-> FALSE,
          what |-> [head |-> << "File stream empty when trying to read "
                                \o "Resolve .cube lut" >>,
                    at |-> << >>, error |-> << >>]]
    ELSE LET st == ReadLines(ReadLocals, istream.lines, fileName, 1)
         IN  IF ~st.thrown.ok THEN st.thrown ELSE Interpret(st, fileName)

----------------------------------------------------------------------------
(* LocalFileFormat::buildFileOps.  An OpRcPtrVec is the sequence of the    *)
(* ops appended to it.                                                     *)

\* CombineTransformDirections(d1, d2): unknown if either is unknown,
\* forward if they are the same, inverse otherwise.
CombineTransformDirections(d1, d2) ==
    IF d1 = TRANSFORM_DIR_UNKNOWN \/ d2 = TRANSFORM_DIR_UNKNOWN
    THEN TRANSFORM_DIR_UNKNOWN
    ELSE IF d1 = d2 THEN TRANSFORM_DIR_FORWARD ELSE TRANSFORM_DIR_INVERSE

\* A null CachedFileRcPtr, or one that is no LocalCachedFile.
NullCachedFile == [ok |-> FALSE]

\* Whether a Lut1DOpDataRcPtr or Lut3DOpDataRcPtr points to a LUT.
IsSet(lut) == lut # NoLut

setInterpolation(lut, interp) ==
    [f \in DOMAIN lut \cup {"interpolation"} |->
        IF f = "interpolation" THEN interp ELSE lut[f]]

\* Each of the three appends one op to ops.
CreateMinMaxOp(opsIn, min, max, dir) ==
    Append(opsIn, [type |-> "MinMax", min |-> min, max |-> max, dir |-> dir])

CreateLut1DOp(opsIn, lut, dir) ==
    Append(opsIn, [type |-> "Lut1D", lut |-> lut, dir |-> dir])

CreateLut3DOp(opsIn, lut, dir) ==
    Append(opsIn, [type |-> "Lut3D", lut |-> lut, dir |-> dir])

\* The cached file after the interpolation of the file transform is set.
WithInterpolation(cf, interp) ==
    IF IsSet(cf.lut3D)
    THEN [cf EXCEPT !.lut3D = setInterpolation(@, interp)]
    ELSE IF IsSet(cf.lut1D)
    THEN [cf EXCEPT !.lut1D = setInterpolation(@, interp)]
    ELSE cf

\* The forward branch with the 3-D LUT put before the 1-D LUT.
ForwardOps_Lut3DFirst(opsIn, cf, newDir) ==
    LET a == IF IsSet(cf.lut3D)
             THEN CreateLut3DOp(
                      CreateMinMaxOp(opsIn, cf.range3d_min, cf.range3d_max,
                                     newDir),
                      cf.lut3D, newDir)
             ELSE opsIn
    IN  IF IsSet(cf.lut1D)
        THEN CreateLut1DOp(
                 CreateMinMaxOp(a, cf.range1d_min, cf.range1d_max, newDir),
                 cf.lut1D, newDir)
        ELSE a

ForwardOps(opsIn, cf, newDir) ==
    LET a == IF IsSet(cf.lut1D)
             THEN CreateLut1DOp(
                      CreateMinMaxOp(opsIn, cf.range1d_min, cf.range1d_max,
                                     newDir),
                      cf.lut1D, newDir)
             ELSE opsIn
    IN  IF IsSet(cf.lut3D)
        THEN CreateLut3DOp(
                 CreateMinMaxOp(a, cf.range3d_min, cf.range3d_max, newDir),
                 cf.lut3D, newDir)
        ELSE a

InverseOps(opsIn, cf, newDir) ==
    LET a == IF IsSet(cf.lut3D)
             THEN CreateMinMaxOp(CreateLut3DOp(opsIn, cf.lut3D, newDir),
                                 cf.range3d_min, cf.range3d_max, newDir)
             ELSE opsIn
    IN  IF IsSet(cf.lut1D)
        THEN CreateMinMaxOp(CreateLut1DOp(a, cf.lut1D, newDir),
                            cf.range1d_min, cf.range1d_max, newDir)
        ELSE a

\* buildFileOps(ops, config, context, cachedFile, fileTransform, dir): what
\* it throws or returns, and ops and the cached file after it.
buildFileOps(opsIn, cf, ftDirection, ftInterpolation, dir) ==
    LET newDir == CombineTransformDirections(dir, ftDirection)
        set == WithInterpolation(cf, ftInterpolation)
    IN  IF ~cf.ok
        THEN [res |-> Throw("InvalidCacheType"), ops |-> opsIn,
              cachedFile |-> cf]
        ELSE IF newDir = TRANSFORM_DIR_UNKNOWN
        THEN [res |-> Throw("UnspecifiedTransformDirection"), ops |-> opsIn,
              cachedFile |-> cf]
        ELSE IF newDir = TRANSFORM_DIR_FORWARD
        THEN [res |-> Ok, ops |-> ForwardOps(opsIn, set, newDir),
              cachedFile |-> set]
        ELSE [res |-> Ok, ops |-> InverseOps(opsIn, set, newDir),
              cachedFile |-> set]

----------------------------------------------------------------------------
(* The objects and inputs of the model.                                    *)

\* Largest whole gamma given to compose, and largest whole Log slope/offset.
MaxGamma == 4
MaxLogValue == 2

Metas == {"metaA", "metaB"}

\* Red-channel vectors given to the GammaOpData constructor and setters: for
\* each bound of validateParameters a value on it and a value beyond it.
RedVecs ==
    { <<R(1)>>, <<Rat(1, 100)>>, <<R(100)>>, <<Rat(1, 200)>>, <<R(101)>>,
      <<R(1), R(0)>>, <<R(10), Rat(9, 10)>>, <<Rat(1, 2), R(0)>>,
      <<R(11), R(0)>>, <<R(1), Rat(-1, 1000000)>>, <<R(1), R(1)>> }

\* Vectors given for the other channels: a valid and an out-of-bounds one of
\* each family (each is of the wrong size for the other family).
ChannelVecs == { <<R(1)>>, <<R(101)>>, <<R(1), R(0)>>, <<R(1), R(1)>> }

\* GammaOpData(): the default constructor.
GammaOpDataDefault ==
    GammaOpData(BASIC_FWD, getIdentityParameters(BASIC_FWD),
                getIdentityParameters(BASIC_FWD),
                getIdentityParameters(BASIC_FWD),
                getIdentityParameters(BASIC_FWD), "metaA")

LogOpDataInit == LogOpDataDefault(R(2), TRANSFORM_DIR_FORWARD, "metaA")

NoCall == [op |-> "none"]

\* m_cacheID of a newly constructed operation: the empty string.
NoCacheID == << >>

NoCacheIDs ==
    [gamma |-> NoCacheID, gammaB |-> NoCacheID, log |-> NoCacheID,
     logB |-> NoCacheID]

Threads == {"t1", "t2"}

NoThread == "noThread"

\* A thread that is not inside finalize().
Idle == [on |-> "none", at |-> "idle"]

\* No file has been read, no op built, and no two objects are the same.
InitBuild ==
    /\ cachedFile = << >>
    /\ ops = << >>
    /\ aliased = [gamma |-> FALSE, log |-> FALSE]

\* No thread has entered finalize() and no stream is handed to the reader.
InitOthers ==
    /\ mutex = [gamma |-> NoThread, log |-> NoThread]
    /\ pc = [t \in Threads |-> Idle]
    /\ stream = [t \in Threads |-> NoCacheID]
    /\ file = << >>
    /\ InitBuild

\* The return of a void method that did not throw.
Void == [op |-> "void"]

----------------------------------------------------------------------------
(* SpecGamma: one GammaOpData, its setters and its one-operand methods.    *)

InitGamma ==
    /\ \E s \in Styles, m \in Metas :
       \E r \in RedVecs, g \in ChannelVecs, b \in ChannelVecs,
          a \in ChannelVecs :
          gamma = GammaOpData(s, r, g, b, a, m)
    /\ gammaB = GammaOpDataDefault
    /\ log = LogOpDataInit
    /\ logB = LogOpDataInit
    /\ ret = NoCall
    /\ cacheID = NoCacheIDs
    /\ InitOthers

GammaSetStyle ==
    /\ \E style \in Styles :
          /\ gamma' = [gamma EXCEPT !.style = style]
          /\ ret' = [op |-> "Gamma.setStyle", style |-> style]
    /\ UNCHANGED <<gammaB, log, logB, cacheID, others>>

GammaSetRedParams ==
    /\ \E p \in RedVecs : gamma' = [gamma EXCEPT !.red = p]
    /\ ret' = Void
    /\ UNCHANGED <<gammaB, log, logB, cacheID, others>>

GammaSetGreenParams ==
    /\ \E p \in ChannelVecs : gamma' = [gamma EXCEPT !.green = p]
    /\ ret' = Void
    /\ UNCHANGED <<gammaB, log, logB, cacheID, others>>

GammaSetBlueParams ==
    /\ \E p \in ChannelVecs : gamma' = [gamma EXCEPT !.blue = p]
    /\ ret' = Void
    /\ UNCHANGED <<gammaB, log, logB, cacheID, others>>

GammaSetAlphaParams ==
    /\ \E p \in ChannelVecs : gamma' = [gamma EXCEPT !.alpha = p]
    /\ ret' = Void
    /\ UNCHANGED <<gammaB, log, logB, cacheID, others>>

GammaSetParams ==
    /\ \E p \in ChannelVecs :
          gamma' = [gamma EXCEPT !.red = p, !.green = p, !.blue = p,
                        !.alpha = getIdentityParameters(gamma.style)]
    /\ ret' = Void
    /\ UNCHANGED <<gammaB, log, logB, cacheID, others>>

GammaValidate ==
    /\ ret' = [op |-> "Gamma.validate", res |-> GammaOpData_validate(gamma)]
    /\ UNCHANGED <<gamma, gammaB, log, logB, cacheID, others>>

GammaInverse ==
    /\ ret' = [op |-> "Gamma.inverse", out |-> GammaOpData_inverse(gamma)]
    /\ UNCHANGED <<gamma, gammaB, log, logB, cacheID, others>>

GammaGetIdentityReplacement ==
    /\ ret' = [op |-> "Gamma.getIdentityReplacement",
               out |-> GammaOpData_getIdentityReplacement(gamma)]
    /\ UNCHANGED <<gamma, gammaB, log, logB, cacheID, others>>

NextGamma ==
    \/ GammaSetStyle
    \/ GammaSetRedParams
    \/ GammaSetGreenParams
    \/ GammaSetBlueParams
    \/ GammaSetAlphaParams
    \/ GammaSetParams
    \/ GammaValidate
    \/ GammaInverse
    \/ GammaGetIdentityReplacement

SpecGamma == InitGamma /\ [][NextGamma]_vars

----------------------------------------------------------------------------
(* SpecPair: the two-operand methods on a pair of GammaOpData or a pair    *)
(* of LogOpData built by their constructors.                               *)

\* A gamma whose distance from 1 is below the 1e-6 of compose.
NearOne == Rat(1000002, 1000001)

PairVecsB ==
    { <<R(n)>> : n \in 1..MaxGamma }
        \cup { <<Rat(1, 2)>>, <<R(2), Rat(1, 10)>>, <<R(1), R(0)>> }

PairVecsA == PairVecsB \cup { <<NearOne>> }

OtherVec(p) == IF p = <<R(2)>> THEN <<R(3)>> ELSE <<R(2)>>

\* Constructor calls: all channels alike and alpha the identity, or one of
\* green, blue and alpha set apart.
GammaPairOps(vecs, meta) ==
    { GammaOpData(s, p,
                  IF shape = "green" THEN OtherVec(p) ELSE p,
                  IF shape = "blue" THEN OtherVec(p) ELSE p,
                  IF shape = "alpha" THEN <<R(2)>>
                                     ELSE getIdentityParameters(s),
                  meta) :
        s \in Styles, p \in vecs,
        shape \in {"uniform", "green", "blue", "alpha"} }

LogPairVecs ==
    { <<R(ls), R(0), R(1), R(lo)>> : ls \in 1..MaxLogValue, lo \in 0..1 }

OtherLogVec(p) == [p EXCEPT ![2] = R(1)]

LogPairOps(meta) ==
    { LogOpData(d, base, p,
                IF shape = "green" THEN OtherLogVec(p) ELSE p,
                IF shape = "blue" THEN OtherLogVec(p) ELSE p,
                meta) :
        d \in {TRANSFORM_DIR_FORWARD, TRANSFORM_DIR_INVERSE},
        base \in {R(2), R(10)}, p \in LogPairVecs,
        shape \in {"uniform", "green", "blue"} }

InitPair ==
    /\ ret = NoCall
    /\ cacheID = NoCacheIDs
    /\ InitOthers
    /\ \/ /\ gamma \in GammaPairOps(PairVecsA, "metaA")
          /\ gammaB \in GammaPairOps(PairVecsB, "metaB")
          /\ log = LogOpDataInit
          /\ logB = LogOpDataInit
       \/ /\ gamma = GammaOpDataDefault
          /\ gammaB = GammaOpDataDefault
          /\ log \in LogPairOps("metaA")
          /\ logB \in LogPairOps("metaB")

GammaMayCompose ==
    /\ ret' = [op |-> "Gamma.mayCompose", val |-> mayCompose(gamma, gammaB)]
    /\ UNCHANGED <<gamma, gammaB, log, logB, cacheID, others>>

GammaCompose ==
    /\ ret' = [op |-> "Gamma.compose", res |-> compose(gamma, gammaB)]
    /\ UNCHANGED <<gamma, gammaB, log, logB, cacheID, others>>

\* A.isInverse(B) and B.isInverse(A), as CheckGammaInverse calls them.
GammaIsInverse ==
    /\ ret' = [op |-> "Gamma.isInverse",
               ab |-> GammaOpData_isInverse(gamma, gammaB),
               ba |-> GammaOpData_isInverse(gammaB, gamma)]
    /\ UNCHANGED <<gamma, gammaB, log, logB, cacheID, others>>

LogIsInverse ==
    /\ ret' = [op |-> "Log.isInverse",
               ab |-> LogOpData_isInverse(log, logB),
               ba |-> LogOpData_isInverse(logB, log)]
    /\ UNCHANGED <<gamma, gammaB, log, logB, cacheID, others>>

\* A.isInverse(A).
GammaIsInverseOfItself ==
    /\ ret' = [op |-> "Gamma.isInverse(A, A)",
               val |-> GammaOpData_isInverse(gamma, gamma)]
    /\ UNCHANGED <<gamma, gammaB, log, logB, cacheID, others>>

\* A.isInverse(*A.inverse()).
GammaIsInverseOfInverse ==
    /\ ret' = [op |-> "Gamma.isInverse(A, A.inverse())",
               val |-> GammaOpData_isInverse(gamma,
                                             GammaOpData_inverse(gamma))]
    /\ UNCHANGED <<gamma, gammaB, log, logB, cacheID, others>>

\* A.isInverse(A.inverse()), the call made only if inverse() returned.
LogIsInverseOfInverse ==
    /\ LET inv == LogOpData_inverse(log)
       IN  ret' = [op |-> "Log.isInverse(A, A.inverse())",
                   res |-> inv,
                   val |-> IF inv.ok THEN LogOpData_isInverse(log, inv.out)
                           ELSE FALSE]
    /\ UNCHANGED <<gamma, gammaB, log, logB, cacheID, others>>

NextPair ==
    \/ GammaMayCompose
    \/ GammaCompose
    \/ GammaIsInverse
    \/ GammaIsInverseOfItself
    \/ GammaIsInverseOfInverse
    \/ LogIsInverse
    \/ LogIsInverseOfInverse

SpecPair == InitPair /\ [][NextPair]_vars

----------------------------------------------------------------------------
(* SpecEquals: two GammaOpData or two LogOpData built by their             *)
(* constructors, finalize() on each of them, and operator==.               *)

\* A gamma and a base that differ from 1 and from 2 beyond the
\* FLOAT_DECIMALS digits of the cacheID.
OnePlus == Rat(100000001, 100000000)
TwoPlus == Rat(200000001, 100000000)

EqualsVecsB == { <<R(1)>>, <<R(1), R(0)>> }

EqualsVecsA == EqualsVecsB \cup { <<OnePlus>> }

\* Constructor calls: all channels alike and alpha the identity, or green
\* or alpha set apart.
EqualsGammaOps(vecs, meta) ==
    { GammaOpData(s, p,
                  IF shape = "green" THEN <<R(2)>> ELSE p,
                  p,
                  IF shape = "alpha" THEN <<R(2)>>
                                     ELSE getIdentityParameters(s),
                  meta) :
        s \in Styles, p \in vecs, shape \in {"uniform", "green", "alpha"} }

EqualsLogVecs == { <<R(1), R(0), R(1), R(0)>>, <<R(2), R(0), R(1), R(0)>> }

EqualsLogOps(bases, meta) ==
    { LogOpData(d, base, p,
                IF shape = "green" THEN OtherLogVec(p) ELSE p,
                p, meta) :
        d \in {TRANSFORM_DIR_FORWARD, TRANSFORM_DIR_INVERSE},
        base \in bases, p \in EqualsLogVecs,
        shape \in {"uniform", "green"} }

InitEquals ==
    /\ ret = NoCall
    /\ cacheID = NoCacheIDs
    /\ InitOthers
    /\ \/ /\ gamma \in EqualsGammaOps(EqualsVecsA, "metaA")
          /\ \E m \in Metas : gammaB \in EqualsGammaOps(EqualsVecsB, m)
          /\ log = LogOpDataInit
          /\ logB = LogOpDataInit
       \/ /\ gamma = GammaOpDataDefault
          /\ gammaB = GammaOpDataDefault
          /\ log \in EqualsLogOps({R(2), TwoPlus}, "metaA")
          /\ \E m \in Metas : logB \in EqualsLogOps({R(2), R(10)}, m)

\* finalize() called on the operation A, and on the operation B.
GammaFinalize ==
    LET f == GammaOpData_finalize(gamma, cacheID.gamma)
    IN  /\ cacheID' = [cacheID EXCEPT !.gamma = f.cacheID]
        /\ ret' = [op |-> "Gamma.finalize", res |-> f.res]
        /\ UNCHANGED <<gamma, gammaB, log, logB, others>>

GammaFinalizeB ==
    LET f == GammaOpData_finalize(gammaB, cacheID.gammaB)
    IN  /\ cacheID' = [cacheID EXCEPT !.gammaB = f.cacheID]
        /\ ret' = [op |-> "Gamma.finalize", res |-> f.res]
        /\ UNCHANGED <<gamma, gammaB, log, logB, others>>

LogFinalize ==
    LET f == LogOpData_finalize(log, cacheID.log)
    IN  /\ cacheID' = [cacheID EXCEPT !.log = f.cacheID]
        /\ ret' = [op |-> "Log.finalize", res |-> f.res]
        /\ UNCHANGED <<gamma, gammaB, log, logB, others>>

LogFinalizeB ==
    LET f == LogOpData_finalize(logB, cacheID.logB)
    IN  /\ cacheID' = [cacheID EXCEPT !.logB = f.cacheID]
        /\ ret' = [op |-> "Log.finalize", res |-> f.res]
        /\ UNCHANGED <<gamma, gammaB, log, logB, others>>

\* A == B.
GammaEquals ==
    /\ ret' = [op |-> "Gamma.equals", val |-> GammaOpData_equals(gamma, gammaB)]
    /\ UNCHANGED <<gamma, gammaB, log, logB, cacheID, others>>

LogEquals ==
    /\ ret' = [op |-> "Log.equals", val |-> LogOpData_equals(log, logB)]
    /\ UNCHANGED <<gamma, gammaB, log, logB, cacheID, others>>

NextEquals ==
    \/ GammaFinalize
    \/ GammaFinalizeB
    \/ LogFinalize
    \/ LogFinalizeB
    \/ GammaEquals
    \/ LogEquals

SpecEquals == InitEquals /\ [][NextEquals]_vars

----------------------------------------------------------------------------
(* SpecFinalize: the threads of Threads call finalize() on one shared      *)
(* GammaOpData and one shared LogOpData, statement by statement.  The      *)
(* assignment to m_cacheID copies a string and is two steps, between       *)
(* which the member holds TornCacheID.                                     *)

TornCacheID == << "partly written" >>

Shared == {"gamma", "log"}

\* finalize() with the lock released once validate() has returned.
finalize_holdsLock_ValidateOnly(at) == at = "locked"

\* The scope of `AutoMutex lock(m_mutex)`: from the first statement of
\* finalize() to its end.
finalize_holdsLock(at) ==
    at \in {"locked", "validated", "built", "assigning", "assigned"}

\* AutoMutex's constructor returns once the mutex has no holder.
AutoMutex_mayLock(holder) == holder = NoThread

\* MutexAfter where an exception leaves the mutex with its holder.
MutexAfter_HeldOnThrow(o, t, at) ==
    [mutex EXCEPT ![o] = IF at = "idle" /\ pc[t].at = "assigned"
                         THEN NoThread ELSE t]

\* m_mutex of the object o once thread t stands at `at` in finalize().
MutexAfter(o, t, at) ==
    [mutex EXCEPT ![o] = IF finalize_holdsLock(at) THEN t
                         ELSE IF @ = t THEN NoThread ELSE @]

SharedValidate(o) ==
    IF o = "gamma" THEN GammaOpData_validate(gamma)
    ELSE LogOpData_validate(log)

SharedCacheIDStream(o) ==
    IF o = "gamma" THEN GammaOpData_cacheIDStream(gamma)
    ELSE LogOpData_cacheIDStream(log)

FinalizeGammas ==
    { GammaOpData(BASIC_FWD, <<R(2)>>, <<R(2)>>, <<R(2)>>, <<R(1)>>, "metaA"),
      GammaOpData(BASIC_FWD, <<R(101)>>, <<R(2)>>, <<R(2)>>, <<R(1)>>,
                  "metaA"),
      GammaOpData(MONCURVE_REV, <<R(1), R(0)>>, <<R(1), R(0)>>,
                  <<R(1), R(0)>>, <<R(1), R(0)>>, "metaA") }

FinalizeLogs ==
    { LogOpDataDefault(R(2), TRANSFORM_DIR_FORWARD, "metaA"),
      LogOpDataDefault(R(1), TRANSFORM_DIR_FORWARD, "metaA"),
      LogOpDataDefault(R(10), TRANSFORM_DIR_INVERSE, "metaA") }

InitFinalize ==
    /\ gamma \in FinalizeGammas
    /\ gammaB = GammaOpDataDefault
    /\ log \in FinalizeLogs
    /\ logB = LogOpDataInit
    /\ ret = NoCall
    /\ cacheID = NoCacheIDs
    /\ InitOthers

\* AutoMutex lock(m_mutex): waits until the mutex is free.
FinalizeLock(t) ==
    \E o \in Shared :
        /\ pc[t] = Idle
        /\ AutoMutex_mayLock(mutex[o])
        /\ pc' = [pc EXCEPT ![t] = [on |-> o, at |-> "locked"]]
        /\ mutex' = MutexAfter(o, t, "locked")
        /\ UNCHANGED <<gamma, gammaB, log, logB, ret, cacheID, stream, file,
                     cachedFile, ops, aliased>>

\* validate(): on an exception the stack is unwound, which destroys lock.
FinalizeValidate(t) ==
    LET o == pc[t].on
        v == SharedValidate(o)
    IN  /\ pc[t].at = "locked"
        /\ IF v.ok
           THEN /\ pc' = [pc EXCEPT ![t].at = "validated"]
                /\ mutex' = MutexAfter(o, t, "validated")
                /\ UNCHANGED ret
           ELSE /\ pc' = [pc EXCEPT ![t] = Idle]
                /\ mutex' = MutexAfter(o, t, "idle")
                /\ ret' = [op |-> "finalize", on |-> o, by |-> t, res |-> v]
        /\ UNCHANGED <<gamma, gammaB, log, logB, cacheID, stream, file,
                     cachedFile, ops, aliased>>

\* The statements that fill cacheIDStream.
FinalizeBuild(t) ==
    LET o == pc[t].on
    IN  /\ pc[t].at = "validated"
        /\ stream' = [stream EXCEPT ![t] = SharedCacheIDStream(o)]
        /\ pc' = [pc EXCEPT ![t].at = "built"]
        /\ mutex' = MutexAfter(o, t, "built")
        /\ UNCHANGED <<gamma, gammaB, log, logB, ret, cacheID, file,
                     cachedFile, ops, aliased>>

\* m_cacheID = cacheIDStream.str(): the copy has begun.
FinalizeAssignBegin(t) ==
    LET o == pc[t].on
    IN  /\ pc[t].at = "built"
        /\ cacheID' = [cacheID EXCEPT ![o] = TornCacheID]
        /\ pc' = [pc EXCEPT ![t].at = "assigning"]
        /\ mutex' = MutexAfter(o, t, "assigning")
        /\ UNCHANGED <<gamma, gammaB, log, logB, ret, stream, file,
                     cachedFile, ops, aliased>>

\* m_cacheID = cacheIDStream.str(): the copy is complete.
FinalizeAssignEnd(t) ==
    LET o == pc[t].on
    IN  /\ pc[t].at = "assigning"
        /\ cacheID' = [cacheID EXCEPT ![o] = stream[t]]
        /\ pc' = [pc EXCEPT ![t].at = "assigned"]
        /\ mutex' = MutexAfter(o, t, "assigned")
        /\ UNCHANGED <<gamma, gammaB, log, logB, ret, stream, file,
                     cachedFile, ops, aliased>>

\* The end of finalize(): cacheIDStream and lock are destroyed.
FinalizeReturn(t) ==
    LET o == pc[t].on
    IN  /\ pc[t].at = "assigned"
        /\ stream' = [stream EXCEPT ![t] = NoCacheID]
        /\ pc' = [pc EXCEPT ![t] = Idle]
        /\ mutex' = MutexAfter(o, t, "idle")
        /\ ret' = [op |-> "finalize", on |-> o, by |-> t, res |-> Ok]
        /\ UNCHANGED <<gamma, gammaB, log, logB, cacheID, file,
                     cachedFile, ops, aliased>>

NextFinalize ==
    \E t \in Threads :
        \/ FinalizeLock(t)
        \/ FinalizeValidate(t)
        \/ FinalizeBuild(t)
        \/ FinalizeAssignBegin(t)
        \/ FinalizeAssignEnd(t)
        \/ FinalizeReturn(t)

SpecFinalize == InitFinalize /\ [][NextFinalize]_vars

----------------------------------------------------------------------------
(* SpecRefinalize: finalize() calls on one GammaOpData and one LogOpData   *)
(* shared by the threads, and, between the calls on an object, a setter    *)
(* call that corrects or spoils it.                                        *)

\* No call of finalize() on the object o is under way.
NoFinalizeOn(o) == \A t \in Threads : pc[t].on # o

\* setRedParams(p), called while no thread is in finalize() on the object.
RefinalizeSetRedParams ==
    /\ NoFinalizeOn("gamma")
    /\ \E p \in { <<R(3)>>, <<R(101)>> } :
          /\ gamma' = [gamma EXCEPT !.red = p]
          /\ ret' = [op |-> "Gamma.setRedParams", p |-> p]
    /\ UNCHANGED <<gammaB, log, logB, cacheID, others>>

\* setBase(base), called while no thread is in finalize() on the object.
RefinalizeSetBase ==
    /\ NoFinalizeOn("log")
    /\ \E base \in { R(1), R(3) } :
          /\ log' = [log EXCEPT !.base = base]
          /\ ret' = [op |-> "Log.setBase", base |-> base]
    /\ UNCHANGED <<gamma, gammaB, logB, cacheID, others>>

NextRefinalize ==
    \/ \E t \in Threads :
          \/ FinalizeLock(t)
          \/ FinalizeValidate(t)
          \/ FinalizeBuild(t)
          \/ FinalizeAssignBegin(t)
          \/ FinalizeAssignEnd(t)
          \/ FinalizeReturn(t)
    \/ RefinalizeSetRedParams
    \/ RefinalizeSetBase

SpecRefinalize == InitFinalize /\ [][NextRefinalize]_vars

----------------------------------------------------------------------------
(* SpecCube: read() applied to a stream of lines.  The streams are the     *)
(* files with any of the four header tags followed by data lines, too few, *)
(* as many as declared or too many, and each of them with one more line    *)
(* put in at any place.                                                    *)

\* Largest LUT_1D_SIZE and LUT_3D_SIZE written in a file.
MaxSize1D == 2
MaxSize3D == 2

CubeLine(parts) == [hash |-> FALSE, parts |-> parts]

Size1DLine(n) == CubeLine(<<Word("LUT_1D_SIZE"), IntNumeral(n)>>)
Size3DLine(n) == CubeLine(<<Word("LUT_3D_SIZE"), IntNumeral(n)>>)

Range1DLine(lo, hi) ==
    CubeLine(<<Word("LUT_1D_INPUT_RANGE"), FloatNumeral(lo),
               FloatNumeral(hi)>>)

Range3DLine(lo, hi) ==
    CubeLine(<<Word("LUT_3D_INPUT_RANGE"), FloatNumeral(lo),
               FloatNumeral(hi)>>)

\* The i-th data line of a file: no two are alike.
TripletLine(i) ==
    CubeLine(<<FloatNumeral(i), FloatNumeral(0), FloatNumeral(1)>>)

CommentLine == [hash |-> TRUE, parts |-> <<Word("#"), Word("comment")>>]

\* Lines that are no part of a well-formed file.
ExtraLines ==
    { CommentLine,
      CubeLine(<< >>),
      CubeLine(<<Word("TITLE"), Word("name")>>),
      CubeLine(<<Word("LUT_2D_SIZE"), IntNumeral(2)>>),
      CubeLine(<<Word("WRONG_TAG")>>),
      CubeLine(<<FloatNumeral(0), FloatNumeral(0)>>),
      CubeLine(<<Word("LUT_3D_SIZE"), IntNumeral(2), IntNumeral(2)>>),
      CubeLine(<<Word("LUT_1D_SIZE"), Word("two")>>),
      CubeLine(<<Word("LUT_3D_INPUT_RANGE"), FloatNumeral(0),
                 FloatNumeral(1), FloatNumeral(2)>>) }

\* The tag lines of a file: n = 0 writes no size tag, and the range is
\* written or left out.
Header1D(n, withRange) ==
    IF n = 0 THEN << >>
    ELSE IF withRange THEN <<Size1DLine(n), Range1DLine(0, 2)>>
    ELSE <<Size1DLine(n)>>

Header3D(n, withRange) ==
    IF n = 0 THEN << >>
    ELSE IF withRange THEN <<Size3DLine(n), Range3DLine(0, 2)>>
    ELSE <<Size3DLine(n)>>

\* Numbers of data lines written after a header declaring n1 and n3: none,
\* the 1-D entries alone, and one fewer than, as many as and one more than
\* declared.
DataCounts(n1, n3) ==
    LET e == n1 + n3 * n3 * n3
    IN  { k \in 0..(e + 1) : k \in {0, n1, e - 1, e, e + 1} }

Insert(lines, p, line) ==
    SubSeq(lines, 1, p) \o <<line>> \o SubSeq(lines, p + 1, Len(lines))

\* Where a line is put in: before, inside and right after the header,
\* between the first data lines, and at the end.
InsertPoints(header, lines) ==
    { p \in 0..Len(lines) : p <= Len(header) + 2 \/ p = Len(lines) }

\* A header with its data lines, and the same with one more line put in.
FilesOf(header, k) ==
    LET f == header \o [i \in 1..k |-> TripletLine(i)]
    IN  {f} \cup { Insert(f, p, l) :
                     p \in InsertPoints(header, f), l \in ExtraLines }

FilesFor(n1, r1, n3, r3) ==
    UNION { FilesOf(Header1D(n1, r1) \o Header3D(n3, r3), k) :
              k \in DataCounts(n1, n3) }

\* The declared number of data lines with the tag lines h2 put after the
\* first k of them.
Interleaved(h1, h2, e, k) ==
    h1 \o [i \in 1..k |-> TripletLine(i)] \o h2
       \o [i \in 1..(e - k) |-> TripletLine(k + i)]

\* Files whose tag lines stand, all or those of one table, among or after
\* the data lines.
InterleavedFor(n1, r1, n3, r3) ==
    LET h1d == Header1D(n1, r1)
        h3d == Header3D(n3, r3)
        e == n1 + n3 * n3 * n3
    IN  UNION { { Interleaved(<< >>, h1d \o h3d, e, k),
                  Interleaved(h1d, h3d, e, k),
                  Interleaved(h3d, h1d, e, k) } : k \in 1..e }

CubeFiles ==
    UNION { FilesFor(n1, r1, n3, r3) \cup InterleavedFor(n1, r1, n3, r3) :
              n1 \in 0..MaxSize1D, r1 \in BOOLEAN,
              n3 \in 0..MaxSize3D, r3 \in BOOLEAN }

InitCube ==
    /\ gamma = GammaOpDataDefault
    /\ gammaB = GammaOpDataDefault
    /\ log = LogOpDataInit
    /\ logB = LogOpDataInit
    /\ ret = NoCall
    /\ cacheID = NoCacheIDs
    /\ mutex = [gamma |-> NoThread, log |-> NoThread]
    /\ pc = [t \in Threads |-> Idle]
    /\ stream = [t \in Threads |-> NoCacheID]
    /\ InitBuild
    /\ \/ \E f \in CubeFiles :
             file = [good |-> TRUE, name |-> "lut.cube", lines |-> f]
       \/ file = [good |-> FALSE, name |-> "lut.cube", lines |-> << >>]

CubeRead ==
    /\ ret' = [op |-> "Cube.read", res |-> read(file, file.name)]
    /\ UNCHANGED <<gamma, gammaB, log, logB, cacheID, others>>

NextCube == CubeRead

SpecCube == InitCube /\ [][NextCube]_vars

----------------------------------------------------------------------------
(* SpecQuery: isIdentity(), isClamping() and isNoOp() on a GammaOpData     *)
(* or a LogOpData built by its constructor.                                *)

QueryGammas ==
    { GammaOpData(s, r, g, b, a, "metaA") :
        s \in Styles, r \in RedVecs, g \in ChannelVecs, b \in ChannelVecs,
        a \in ChannelVecs }

InitQuery ==
    /\ ret = NoCall
    /\ cacheID = NoCacheIDs
    /\ InitOthers
    /\ gammaB = GammaOpDataDefault
    /\ logB = LogOpDataInit
    /\ \/ /\ gamma \in QueryGammas
          /\ log = LogOpDataInit
       \/ /\ gamma = GammaOpDataDefault
          /\ log \in LogPairOps("metaA")

GammaIsIdentity ==
    /\ \E stray \in StrayDoubles :
          ret' = [op |-> "Gamma.isIdentity",
                  val |-> GammaOpData_isIdentity(gamma, stray)]
    /\ UNCHANGED <<gamma, gammaB, log, logB, cacheID, others>>

GammaIsClamping ==
    /\ ret' = [op |-> "Gamma.isClamping", val |-> isClamping(gamma)]
    /\ UNCHANGED <<gamma, gammaB, log, logB, cacheID, others>>

\* isNoOp(), with what its call of isIdentity() returned.
GammaIsNoOp ==
    /\ \E stray \in StrayDoubles :
          ret' = [op |-> "Gamma.isNoOp",
                  val |-> GammaOpData_isNoOp(gamma, stray),
                  isIdentity |-> GammaOpData_isIdentity(gamma, stray)]
    /\ UNCHANGED <<gamma, gammaB, log, logB, cacheID, others>>

LogIsNoOp ==
    /\ ret' = [op |-> "Log.isNoOp", val |-> LogOpData_isNoOp(log),
               isIdentity |-> LogOpData_isIdentity(log)]
    /\ UNCHANGED <<gamma, gammaB, log, logB, cacheID, others>>

NextQuery ==
    \/ GammaIsIdentity
    \/ GammaIsClamping
    \/ GammaIsNoOp
    \/ LogIsNoOp

SpecQuery == InitQuery /\ [][NextQuery]_vars

----------------------------------------------------------------------------
(* SpecClone: a GammaOpData or a LogOpData, the object its clone() or      *)
(* inverse() returned, and the setters called on either of the two.        *)

\* No object: nothing has been constructed or returned yet.
NoObject == [object |-> "none"]

\* make_shared that hands back the receiver instead of a new object.
make_shared_Receiver(receiver) == receiver

\* std::make_shared<T>(...) called in the receiver: where the object it
\* returns lives, a new object and never the receiver.
make_shared(receiver) == "new"

\* The vector given to the setters of this specification.
CloneVec == <<R(2)>>

\* The object after one setter call.
GammaSetterCalls(G) ==
    { [G EXCEPT !.style = style] : style \in Styles }
        \cup { [G EXCEPT !.red = CloneVec], [G EXCEPT !.green = CloneVec],
               [G EXCEPT !.blue = CloneVec], [G EXCEPT !.alpha = CloneVec],
               [G EXCEPT !.red = CloneVec, !.green = CloneVec,
                         !.blue = CloneVec,
                         !.alpha = getIdentityParameters(G.style)] }

LogSetterCalls(L) ==
    { [L EXCEPT !.base = R(10)],
      setValue(L, LOG_SIDE_SLOPE, <<R(2), R(2), R(2)>>),
      setValue(L, LIN_SIDE_OFFSET, <<R(0), R(1), R(0)>>),
      setParameters(L, DefaultLogSlope, DefaultLogOffset, DefaultLinSlope,
                    DefaultLinOffset) }

InitClone ==
    /\ gammaB = NoObject
    /\ logB = NoObject
    /\ ret = NoCall
    /\ cacheID = NoCacheIDs
    /\ InitOthers
    /\ \/ /\ gamma = GammaOpData(MONCURVE_FWD, <<R(2), Rat(1, 10)>>,
                                 <<R(2), Rat(1, 10)>>, <<R(2), Rat(1, 10)>>,
                                 <<R(1), R(0)>>, "metaB")
          /\ log = NoObject
       \/ /\ gamma = NoObject
          /\ \E d \in {TRANSFORM_DIR_FORWARD, TRANSFORM_DIR_INVERSE} :
                log = LogOpDataDefault(R(2), d, "metaB")

\* gammaB = gamma.clone().
CloneGamma ==
    /\ gamma # NoObject
    /\ gammaB' = GammaOpData_clone(gamma)
    /\ aliased' = [aliased EXCEPT !.gamma = (make_shared("gamma") = "gamma")]
    /\ cacheID' = [cacheID EXCEPT !.gammaB = cacheID.gamma]
    /\ ret' = [op |-> "Gamma.clone"]
    /\ UNCHANGED <<gamma, log, logB, mutex, pc, stream, file, cachedFile,
                   ops>>

\* gammaB = gamma.inverse(): setStyle is called on the object clone()
\* returned.
InvertGamma ==
    /\ gamma # NoObject
    /\ gammaB' = GammaOpData_inverse(gamma)
    /\ gamma' = IF make_shared("gamma") = "gamma" THEN gammaB' ELSE gamma
    /\ aliased' = [aliased EXCEPT !.gamma = (make_shared("gamma") = "gamma")]
    /\ cacheID' = [cacheID EXCEPT !.gammaB = cacheID.gamma]
    /\ ret' = [op |-> "Gamma.inverse"]
    /\ UNCHANGED <<log, logB, mutex, pc, stream, file, cachedFile, ops>>

\* logB = log.clone().
CloneLog ==
    /\ log # NoObject
    /\ logB' = LogOpData_clone(log)
    /\ aliased' = [aliased EXCEPT !.log = (make_shared("log") = "log")]
    /\ cacheID' = [cacheID EXCEPT !.logB = NoCacheID]
    /\ ret' = [op |-> "Log.clone"]
    /\ UNCHANGED <<gamma, gammaB, log, mutex, pc, stream, file, cachedFile,
                   ops>>

\* logB = log.inverse(): setDirection is called on the object clone()
\* returned, and nothing is returned if validate() throws.
InvertLog ==
    /\ log # NoObject
    /\ LET inv == LogOpData_inverse(log)
           flipped == LogOpData_inverse_NoValidate(log).out
       IN  /\ log' = IF make_shared("log") = "log" THEN flipped ELSE log
           /\ IF inv.ok
              THEN /\ logB' = inv.out
                   /\ aliased' = [aliased EXCEPT
                                    !.log = (make_shared("log") = "log")]
                   /\ cacheID' = [cacheID EXCEPT !.logB = NoCacheID]
              ELSE UNCHANGED <<logB, aliased, cacheID>>
           /\ ret' = [op |-> "Log.inverse", res |-> inv]
    /\ UNCHANGED <<gamma, gammaB, mutex, pc, stream, file, cachedFile, ops>>

\* A setter called on the source.
MutateGammaSource ==
    /\ gamma # NoObject
    /\ \E G \in GammaSetterCalls(gamma) :
          /\ gamma' = G
          /\ gammaB' = IF aliased.gamma THEN G ELSE gammaB
    /\ ret' = [op |-> "Gamma.source.set"]
    /\ UNCHANGED <<log, logB, cacheID, others>>

\* A setter called on the object clone() or inverse() returned.
MutateGammaResult ==
    /\ gammaB # NoObject
    /\ \E G \in GammaSetterCalls(gammaB) :
          /\ gammaB' = G
          /\ gamma' = IF aliased.gamma THEN G ELSE gamma
    /\ ret' = [op |-> "Gamma.result.set"]
    /\ UNCHANGED <<log, logB, cacheID, others>>

MutateLogSource ==
    /\ log # NoObject
    /\ \E L \in LogSetterCalls(log) :
          /\ log' = L
          /\ logB' = IF aliased.log THEN L ELSE logB
    /\ ret' = [op |-> "Log.source.set"]
    /\ UNCHANGED <<gamma, gammaB, cacheID, others>>

MutateLogResult ==
    /\ logB # NoObject
    /\ \E L \in LogSetterCalls(logB) :
          /\ logB' = L
          /\ log' = IF aliased.log THEN L ELSE log
    /\ ret' = [op |-> "Log.result.set"]
    /\ UNCHANGED <<gamma, gammaB, cacheID, others>>

NextClone ==
    \/ CloneGamma
    \/ InvertGamma
    \/ CloneLog
    \/ InvertLog
    \/ MutateGammaSource
    \/ MutateGammaResult
    \/ MutateLogSource
    \/ MutateLogResult

SpecClone == InitClone /\ [][NextClone]_vars

----------------------------------------------------------------------------
(* SpecFlags: a value of OptimizationFlags tested against one bit.         *)

\* The bits of an OptimizationFlags value: OPTIMIZATION_ALL is 0xFFFF.
FlagBits == 16

RECURSIVE Pow2(_)
Pow2(k) == IF k = 0 THEN 1 ELSE 2 * Pow2(k - 1)

Grades ==
    { [name |-> "NONE", flags |-> OPTIMIZATION_NONE],
      [name |-> "LOSSLESS", flags |-> OPTIMIZATION_LOSSLESS],
      [name |-> "VERY_GOOD", flags |-> OPTIMIZATION_VERY_GOOD],
      [name |-> "GOOD", flags |-> OPTIMIZATION_GOOD],
      [name |-> "DRAFT", flags |-> OPTIMIZATION_DRAFT],
      [name |-> "DEFAULT", flags |-> OPTIMIZATION_DEFAULT],
      [name |-> "ALL", flags |-> OPTIMIZATION_ALL] }

InitFlags ==
    /\ gamma = GammaOpDataDefault
    /\ gammaB = GammaOpDataDefault
    /\ log = LogOpDataInit
    /\ logB = LogOpDataInit
    /\ ret = NoCall
    /\ cacheID = NoCacheIDs
    /\ InitOthers

\* (flags & flag) == flag for a grade and a flag of one bit.
HasFlag ==
    /\ \E grade \in Grades, bit \in 0..(FlagBits - 1) :
          ret' = [op |-> "Flags.has", grade |-> grade.name,
                  flags |-> grade.flags, flag |-> Pow2(bit),
                  val |-> BitAnd(grade.flags, Pow2(bit)) = Pow2(bit)]
    /\ UNCHANGED <<gamma, gammaB, log, logB, cacheID, others>>

NextFlags == HasFlag

SpecFlags == InitFlags /\ [][NextFlags]_vars

----------------------------------------------------------------------------
(* SpecBuild: buildFileOps on what read() returned for a well-formed file. *)

\* Calls are made as long as ops holds no more than MaxOps ops.
MaxOps == 1

\* The cached files of the well-formed files with one or two tables.
BuildCachedFiles ==
    { read([good |-> TRUE, name |-> "lut.cube",
            lines |-> Header1D(n1, r1) \o Header3D(n3, r3)
                        \o [i \in 1..(n1 + n3 * n3 * n3) |-> TripletLine(i)]],
           "lut.cube") :
        n1 \in 0..MaxSize1D, r1 \in BOOLEAN,
        n3 \in 0..MaxSize3D, r3 \in BOOLEAN }

InitBuildFileOps ==
    /\ gamma = GammaOpDataDefault
    /\ gammaB = GammaOpDataDefault
    /\ log = LogOpDataInit
    /\ logB = LogOpDataInit
    /\ ret = NoCall
    /\ cacheID = NoCacheIDs
    /\ mutex = [gamma |-> NoThread, log |-> NoThread]
    /\ pc = [t \in Threads |-> Idle]
    /\ stream = [t \in Threads |-> NoCacheID]
    /\ file = << >>
    /\ aliased = [gamma |-> FALSE, log |-> FALSE]
    /\ cachedFile \in { cf \in BuildCachedFiles : cf.ok } \cup {NullCachedFile}
    /\ ops \in { << >>, << [type |-> "FileNoOp"] >> }

BuildFileOps ==
    /\ Len(ops) <= MaxOps
    /\ \E dir \in {TRANSFORM_DIR_FORWARD, TRANSFORM_DIR_INVERSE,
                   TRANSFORM_DIR_UNKNOWN},
          ftDirection \in {TRANSFORM_DIR_FORWARD, TRANSFORM_DIR_INVERSE,
                           TRANSFORM_DIR_UNKNOWN},
          ftInterpolation \in {"linear", "tetrahedral"} :
          LET r == buildFileOps(ops, cachedFile, ftDirection,
                                ftInterpolation, dir)
          IN  /\ ops' = r.ops
              /\ cachedFile' = r.cachedFile
              /\ ret' = [op |-> "Cube.buildFileOps", res |-> r.res,
                         dir |-> dir, ftDirection |-> ftDirection]
    /\ UNCHANGED <<gamma, gammaB, log, logB, cacheID, mutex, pc, stream,
                   file, aliased>>

NextBuild == BuildFileOps

SpecBuild == InitBuildFileOps /\ [][NextBuild]_vars

----------------------------------------------------------------------------
(* SpecCompose: compose() on constructed operations, valid or not, and on  *)
(* an operation and its inverse.                                           *)

\* The bounds of a Basic gamma, values between them, and a negative one.
ComposeVecsA ==
    { <<Rat(1, 100)>>, <<Rat(1, 2)>>, <<R(1)>>, <<R(2)>>, <<R(3)>>,
      <<R(100)>>, <<R(-2)>>, <<R(2), Rat(1, 10)>> }

ComposeVecsB ==
    { <<Rat(1, 2)>>, <<R(2)>>, <<R(100)>>, <<NearOne>>, <<R(2), Rat(1, 10)>> }

\* The relative error of a rounded division: none, or 1e-7 up or down.
Roundings == { R(1), Rat(10000001, 10000000), Rat(9999999, 10000000) }

InitCompose ==
    /\ ret = NoCall
    /\ cacheID = NoCacheIDs
    /\ InitOthers
    /\ gamma \in GammaPairOps(ComposeVecsA, "metaA")
    /\ gammaB \in GammaPairOps(ComposeVecsB, "metaB")
    /\ log = LogOpDataInit
    /\ logB = LogOpDataInit

\* The Basic operations among the second operands that pass validate().
FurtherOperands ==
    { X \in GammaPairOps(ComposeVecsB, "metaB") :
        X.style \in {BASIC_FWD, BASIC_REV} /\ GammaOpData_validate(X).ok }

\* A.compose(B), and validate() and mayCompose(X), for each further operand
\* X, on what it returns.
GammaComposeValidate ==
    /\ LET r == compose(gamma, gammaB)
       IN  ret' = [op |-> "Gamma.compose.validate", res |-> r,
                   validate |-> IF r.ok THEN GammaOpData_validate(r.out)
                                ELSE NoCall,
                   mayCompose |-> IF r.ok
                                  THEN { mayCompose(r.out, X) :
                                            X \in FurtherOperands }
                                  ELSE { }]
    /\ UNCHANGED <<gamma, gammaB, log, logB, cacheID, others>>

\* A.compose(*A.inverse()) and A.inverse()->compose(A), and isIdentity() on
\* what they return.
GammaComposeWithInverse ==
    /\ \E err \in Roundings :
          LET inv == GammaOpData_inverse(gamma)
              ab == composeRounded(gamma, inv, err)
              ba == composeRounded(inv, gamma, err)
          IN  ret' = [op |-> "Gamma.compose(A, A.inverse())",
                      err |-> err, ab |-> ab, ba |-> ba,
                      abIdentity |->
                          ab.ok /\ GammaOpData_isIdentity(ab.out, R(0)),
                      baIdentity |->
                          ba.ok /\ GammaOpData_isIdentity(ba.out, R(0))]
    /\ UNCHANGED <<gamma, gammaB, log, logB, cacheID, others>>

NextCompose ==
    \/ GammaComposeValidate
    \/ GammaComposeWithInverse

SpecCompose == InitCompose /\ [][NextCompose]_vars

----------------------------------------------------------------------------
(* SpecProtocol: setStyle and setParams, with any vector, among the other  *)
(* setters of one GammaOpData.                                             *)

\* setParams that leaves the alpha vector as it is.
GammaSetParamsAny_KeepAlpha ==
    /\ \E p \in RedVecs :
          /\ gamma' = [gamma EXCEPT !.red = p, !.green = p, !.blue = p]
          /\ ret' = [op |-> "Gamma.setParams", p |-> p]
    /\ UNCHANGED <<gammaB, log, logB, cacheID, others>>

\* setParams(p) with any of the vectors given for the red channel.
GammaSetParamsAny ==
    /\ \E p \in RedVecs :
          /\ gamma' = [gamma EXCEPT !.red = p, !.green = p, !.blue = p,
                            !.alpha = getIdentityParameters(gamma.style)]
          /\ ret' = [op |-> "Gamma.setParams", p |-> p]
    /\ UNCHANGED <<gammaB, log, logB, cacheID, others>>

NextProtocol ==
    \/ GammaSetStyle
    \/ GammaSetRedParams
    \/ GammaSetGreenParams
    \/ GammaSetBlueParams
    \/ GammaSetAlphaParams
    \/ GammaSetParamsAny

SpecProtocol == InitGamma /\ [][NextProtocol]_vars

----------------------------------------------------------------------------
(* SpecCache: one GammaOpData between its setters and finalize().          *)

InitCache ==
    /\ \E s \in Styles :
       \E r \in RedVecs, g \in ChannelVecs, b \in ChannelVecs,
          a \in ChannelVecs :
          gamma = GammaOpData(s, r, g, b, a, "metaA")
    /\ gammaB = GammaOpDataDefault
    /\ log = LogOpDataInit
    /\ logB = LogOpDataInit
    /\ ret = NoCall
    /\ cacheID = NoCacheIDs
    /\ InitOthers

NextCache ==
    \/ GammaSetStyle
    \/ GammaSetRedParams
    \/ GammaSetGreenParams
    \/ GammaSetBlueParams
    \/ GammaSetAlphaParams
    \/ GammaSetParams
    \/ GammaFinalize

SpecCache == InitCache /\ [][NextCache]_vars

----------------------------------------------------------------------------
(* SpecLog: one LogOpData, its constructors, setters and one-operand       *)
(* methods.                                                                *)

LogBases == { R(0), R(1), R(2), R(10) }

Directions == { TRANSFORM_DIR_FORWARD, TRANSFORM_DIR_INVERSE }

\* The double[3] arguments (red, green, blue) of the setters.
SlopeTriples ==
    { <<R(v), R(v), R(v)>> : v \in 0..MaxLogValue }
        \cup { <<R(1), R(0), R(1)>> }

OffsetTriples == { <<R(0), R(0), R(0)>>, <<R(1), R(1), R(1)>>,
                   <<R(0), R(1), R(0)>> }

Triples(val) ==
    IF val \in {LOG_SIDE_SLOPE, LIN_SIDE_SLOPE}
    THEN SlopeTriples ELSE OffsetTriples

\* Channel vectors handed to the five-argument constructor: one of the
\* expected size and one that is too short.
CtorVecs == { <<R(1), R(0), R(1), R(0)>>, <<R(1), R(0), R(1)>> }

\* The metadata of a newly constructed operation.
NoMeta == "noMetadata"

InitLog ==
    /\ gamma = GammaOpDataDefault
    /\ gammaB = GammaOpDataDefault
    /\ logB = LogOpDataInit
    /\ ret = NoCall
    /\ cacheID = NoCacheIDs
    /\ InitOthers
    /\ \E d \in Directions, base \in LogBases, m \in {"metaA"} :
          \/ \E ls \in SlopeTriples, lo \in OffsetTriples,
                ns \in SlopeTriples, no \in OffsetTriples :
                log = LogOpDataFromArrays(base, ls, lo, ns, no, d, m)
          \/ \E r \in CtorVecs, g \in CtorVecs, b \in CtorVecs :
                log = LogOpData(d, base, r, g, b, m)

\* LogOpData(base, direction): throws on an unspecified direction.
LogConstruct ==
    \E base \in LogBases,
       d \in Directions \cup {TRANSFORM_DIR_UNKNOWN} :
        IF d = TRANSFORM_DIR_UNKNOWN
        THEN /\ ret' = [op |-> "Log.construct",
                        res |-> Throw("UnspecifiedTransformDirection")]
             /\ UNCHANGED <<gamma, gammaB, log, logB, cacheID, others>>
        ELSE /\ log' = LogOpDataDefault(base, d, NoMeta)
             /\ cacheID' = [cacheID EXCEPT !.log = NoCacheID]
             /\ ret' = [op |-> "Log.construct", res |-> Ok]
             /\ UNCHANGED <<gamma, gammaB, logB, others>>

LogSetBase ==
    /\ \E base \in LogBases : log' = [log EXCEPT !.base = base]
    /\ ret' = Void
    /\ UNCHANGED <<gamma, gammaB, logB, cacheID, others>>

\* Writing index val of a vector that does not hold it is undefined and is
\* not among the calls modelled.
LogSetValue ==
    /\ \E val \in {LOG_SIDE_SLOPE, LOG_SIDE_OFFSET, LIN_SIDE_SLOPE,
                   LIN_SIDE_OFFSET} :
          /\ Len(log.red) > val /\ Len(log.green) > val /\ Len(log.blue) > val
          /\ \E values \in Triples(val) : log' = setValue(log, val, values)
    /\ ret' = Void
    /\ UNCHANGED <<gamma, gammaB, logB, cacheID, others>>

LogSetParameters ==
    /\ \E ls \in SlopeTriples, ns \in SlopeTriples, o \in OffsetTriples :
          log' = setParameters(log, ls, o, ns, o)
    /\ ret' = Void
    /\ UNCHANGED <<gamma, gammaB, logB, cacheID, others>>

LogValidate ==
    /\ ret' = [op |-> "Log.validate", res |-> LogOpData_validate(log)]
    /\ UNCHANGED <<gamma, gammaB, log, logB, cacheID, others>>

LogInverse ==
    /\ ret' = [op |-> "Log.inverse", res |-> LogOpData_inverse(log)]
    /\ UNCHANGED <<gamma, gammaB, log, logB, cacheID, others>>

\* Reading m_redParams[LIN_SIDE_OFFSET] of a shorter vector is undefined and
\* is not among the calls modelled.
LogGetIdentityReplacement ==
    /\ Len(log.red) > LIN_SIDE_OFFSET
    /\ ret' = [op |-> "Log.getIdentityReplacement",
               out |-> LogOpData_getIdentityReplacement(log)]
    /\ UNCHANGED <<gamma, gammaB, log, logB, cacheID, others>>

NextLog ==
    \/ LogConstruct
    \/ LogSetBase
    \/ LogSetValue
    \/ LogSetParameters
    \/ LogValidate
    \/ LogInverse
    \/ LogGetIdentityReplacement

SpecLog == InitLog /\ [][NextLog]_vars

----------------------------------------------------------------------------
(* The properties checked.  What a claim calls channel-dependent, Basic,   *)
(* valid, ... is written out here from the claim's words.                  *)

ClaimBasic(G) == G.style \in {BASIC_FWD, BASIC_REV}

ClaimMoncurve(G) == G.style \in {MONCURVE_FWD, MONCURVE_REV}

ClaimIdentityVector(G) ==
    IF ClaimBasic(G) THEN <<R(1)>> ELSE <<R(1), R(0)>>

\* R, G, B differ from each other, or alpha is not the identity.
ClaimChannelDependent(G) ==
    \/ G.red # G.green
    \/ G.red # G.blue
    \/ G.green # G.blue
    \/ G.alpha # ClaimIdentityVector(G)

ClaimComposable(A, B) ==
    /\ ClaimBasic(A) /\ ~ClaimChannelDependent(A)
    /\ ClaimBasic(B) /\ ~ClaimChannelDependent(B)

\* C1: A.mayCompose(B) is false whenever A or B is channel-dependent or of a
\* Moncurve style, and true only when both are Basic and non-channel-dependent.
C1_MayComposeRejectsEitherOperand ==
    ret.op = "Gamma.mayCompose" =>
        /\ (ClaimChannelDependent(gamma) \/ ClaimChannelDependent(gammaB)
              \/ ClaimMoncurve(gamma) \/ ClaimMoncurve(gammaB)) => ~ret.val
        /\ ret.val => ClaimComposable(gamma, gammaB)

\* C2: A.compose(B) throws the composition error for every pair in which A or
\* B is Moncurve or channel-dependent, and returns an operation only when both
\* are Basic and non-channel-dependent.
C2_ComposeFailsForEitherOperand ==
    ret.op = "Gamma.compose" =>
        /\ ~ClaimComposable(gamma, gammaB) =>
              /\ ~ret.res.ok
              /\ ret.res.kind = "CanOnlyBeCombinedWithSomeGammaOps"
        /\ ret.res.ok => ClaimComposable(gamma, gammaB)

\* The stored gamma for BasicForward, its reciprocal for BasicReverse.
ClaimEffectiveExponent(G) ==
    IF G.style = BASIC_REV THEN RInv(G.red[1]) ELSE G.red[1]

ClaimProduct(A, B) ==
    RMul(ClaimEffectiveExponent(A), ClaimEffectiveExponent(B))

\* A Basic operation with R = G = B = {g} and alpha = {1}.
ClaimPlain(G, style, g) ==
    /\ G.style = style
    /\ G.red = <<g>> /\ G.green = <<g>> /\ G.blue = <<g>>
    /\ G.alpha = <<R(1)>>

\* The four compositions the claim lists.
ClaimComposeExamples ==
    LET Ex(s1, g1, s2, g2, s3, g3) ==
            (ClaimPlain(gamma, s1, R(g1)) /\ ClaimPlain(gammaB, s2, R(g2)))
                => (ret.res.ok /\ ClaimPlain(ret.res.out, s3, R(g3)))
    IN  /\ Ex(BASIC_FWD, 2, BASIC_FWD, 3, BASIC_FWD, 6)
        /\ Ex(BASIC_REV, 2, BASIC_REV, 4, BASIC_REV, 8)
        /\ Ex(BASIC_REV, 4, BASIC_FWD, 2, BASIC_REV, 2)
        /\ Ex(BASIC_REV, 2, BASIC_FWD, 4, BASIC_FWD, 2)

\* C3 as stated: the composition of two composable Basic operations stores
\* the product of the effective exponents as BasicForward when the product is
\* >= 1, its reciprocal as BasicReverse when it is < 1, and alpha = {1}.
C3_ComposeStoresProduct ==
    (ret.op = "Gamma.compose" /\ ClaimComposable(gamma, gammaB)) =>
        LET P == ClaimProduct(gamma, gammaB)
        IN  /\ ret.res.ok
            /\ IF RLt(P, R(1))
               THEN ClaimPlain(ret.res.out, BASIC_REV, RInv(P))
               ELSE ClaimPlain(ret.res.out, BASIC_FWD, P)
            /\ ClaimComposeExamples

\* C3 amended: as C3, except that a value to store whose distance from 1 is
\* below 1e-6 is stored as exactly 1.
C3_ComposeStoresProductOrOne ==
    (ret.op = "Gamma.compose" /\ ClaimComposable(gamma, gammaB)) =>
        LET P == ClaimProduct(gamma, gammaB)
            v == IF RLt(P, R(1)) THEN RInv(P) ELSE P
            stored == IF RNearOne(v) THEN R(1) ELSE v
        IN  /\ ret.res.ok
            /\ ClaimPlain(ret.res.out,
                          IF RLt(P, R(1)) THEN BASIC_REV ELSE BASIC_FWD,
                          stored)
            /\ ClaimComposeExamples

\* BasicReverse(NearOne) composed with BasicForward(1): 1/NearOne < 1 is
\* re-expressed as BasicReverse(NearOne) and then stored as BasicReverse(1).
C3_Witness ==
    /\ ret.op = "Gamma.compose"
    /\ ClaimPlain(gamma, BASIC_REV, NearOne)
    /\ ClaimPlain(gammaB, BASIC_FWD, R(1))
    /\ ret.res.ok
    /\ ClaimPlain(ret.res.out, BASIC_REV, R(1))

ClaimCounterpart ==
    { <<BASIC_FWD, BASIC_REV>>, <<BASIC_REV, BASIC_FWD>>,
      <<MONCURVE_FWD, MONCURVE_REV>>, <<MONCURVE_REV, MONCURVE_FWD>> }

ClaimSameParams(G, H) ==
    /\ G.red = H.red /\ G.green = H.green
    /\ G.blue = H.blue /\ G.alpha = H.alpha

\* C4: inverse() returns the counterpart style with all four channel vectors
\* unchanged, and the inverse of that result has the style and the vectors of
\* the operation it started from.
C4_InverseIsCounterpart ==
    ret.op = "Gamma.inverse" =>
        /\ <<gamma.style, ret.out.style>> \in ClaimCounterpart
        /\ ClaimSameParams(ret.out, gamma)
        /\ GammaOpData_inverse(ret.out).style = gamma.style
        /\ ClaimSameParams(GammaOpData_inverse(ret.out), gamma)

C4_Witness ==
    /\ ret.op = "Gamma.inverse"
    /\ gamma.style = MONCURVE_REV
    /\ gamma.red = <<R(10), Rat(9, 10)>>
    /\ gamma.alpha = <<R(1), R(1)>>
    /\ ret.out.style = MONCURVE_FWD
    /\ ret.out.red = <<R(10), Rat(9, 10)>>

\* C5: A.isInverse(B) = B.isInverse(A) for every pair of Gamma operations and
\* for every pair of Log operations.
C5_IsInverseSymmetric ==
    ret.op \in {"Gamma.isInverse", "Log.isInverse"} => ret.ab = ret.ba

C5_Witness ==
    /\ ret.op = "Log.isInverse"
    /\ log.direction = TRANSFORM_DIR_FORWARD
    /\ logB.direction = TRANSFORM_DIR_INVERSE
    /\ ret.ab /\ ret.ba

ClaimClampAtZero(op) ==
    /\ op.type = "Range"
    /\ op.minIn = R(0) /\ op.minOut = R(0)
    /\ op.maxIn = EmptyValue /\ op.maxOut = EmptyValue

ClaimPassThrough(op) == op.type = "Matrix" /\ op.identity

ClaimGammaIdentity(G) ==
    /\ G.red = ClaimIdentityVector(G) /\ G.green = ClaimIdentityVector(G)
    /\ G.blue = ClaimIdentityVector(G) /\ G.alpha = ClaimIdentityVector(G)

\* C6 as stated: a BasicForward identity is replaced by a Range clamp at 0
\* with no upper bound, a BasicReverse or Moncurve identity by a pass-through
\* Matrix, and the metadata is copied.
C6_OnlyForwardClamps ==
    (ret.op = "Gamma.getIdentityReplacement" /\ ClaimGammaIdentity(gamma)) =>
        /\ IF gamma.style = BASIC_FWD
           THEN ClaimClampAtZero(ret.out)
           ELSE ClaimPassThrough(ret.out)
        /\ ret.out.meta = gamma.meta

\* C6 amended: a Basic identity of either direction (BasicForward or
\* BasicReverse) is replaced by a Range clamp at 0 with no upper bound, a
\* Moncurve one by a pass-through Matrix, and the metadata is copied.
C6_BothBasicStylesClamp ==
    ret.op = "Gamma.getIdentityReplacement" =>
        /\ IF gamma.style \in {BASIC_FWD, BASIC_REV}
           THEN ClaimClampAtZero(ret.out)
           ELSE ClaimPassThrough(ret.out)
        /\ ret.out.meta = gamma.meta

C6_Witness ==
    /\ ret.op = "Gamma.getIdentityReplacement"
    /\ gamma.style = BASIC_REV
    /\ ClaimGammaIdentity(gamma)
    /\ gamma.meta = "metaB"
    /\ ret.out.type = "Range"
    /\ ret.out.meta = "metaB"

ClaimNoUpperBound(op) == op.maxIn = EmptyValue /\ op.maxOut = EmptyValue

ClaimLogDefaults(L) ==
    /\ L.red = <<R(1), R(0), R(1), R(0)>>
    /\ L.green = L.red /\ L.blue = L.red

\* C7: a Forward Log is replaced by a Range clamp whose lower bound is
\* -linSideOffset/linSideSlope of the red channel (0 for the default
\* parameters with base 2 or 10) with no upper bound, an Inverse Log by a
\* pass-through Matrix whatever its parameters; the metadata is copied.
C7_LogIdentityReplacement ==
    ret.op = "Log.getIdentityReplacement" =>
        /\ ret.out.meta = log.meta
        /\ log.direction = TRANSFORM_DIR_FORWARD =>
              /\ ret.out.type = "Range"
              /\ ret.out.minIn = NegQuot(log.red[4], log.red[3])
              /\ ret.out.minOut = ret.out.minIn
              /\ ClaimNoUpperBound(ret.out)
        /\ (log.direction = TRANSFORM_DIR_FORWARD /\ ClaimLogDefaults(log)
              /\ log.base \in {R(2), R(10)}) => ClaimClampAtZero(ret.out)
        /\ log.direction = TRANSFORM_DIR_INVERSE => ClaimPassThrough(ret.out)

\* The case of the unit test: linSlope 2, linOffset 1 clamps at -1/2.
C7_Witness ==
    /\ ret.op = "Log.getIdentityReplacement"
    /\ log.direction = TRANSFORM_DIR_FORWARD
    /\ log.red[3] = R(2) /\ log.red[4] = R(1)
    /\ log.green[4] = R(1)
    /\ ret.out.type = "Range"
    /\ ret.out.minIn = Rat(-1, 2)

ClaimFourParams(L) ==
    Len(L.red) = 4 /\ Len(L.green) = 4 /\ Len(L.blue) = 4

ClaimChannels(L) == {L.red, L.green, L.blue}

ClaimLinSlopeZero(L) ==
    \E p \in ClaimChannels(L) : Len(p) >= 3 /\ p[3] = R(0)

ClaimLogSlopeZero(L) ==
    \E p \in ClaimChannels(L) : Len(p) >= 1 /\ p[1] = R(0)

ClaimLogValid(L) ==
    /\ ClaimFourParams(L)
    /\ ~ClaimLinSlopeZero(L) /\ ~ClaimLogSlopeZero(L)
    /\ RLt(R(0), L.base) /\ L.base # R(1)

\* C8 as stated: validate() fails with "base cannot be 1" when the base is 1,
\* with "linear slope cannot be 0" when a channel's linear slope is 0, with
\* "log slope cannot be 0" when a channel's log slope is 0, fails when the
\* base is <= 0, and succeeds for 4 parameters per channel, non-zero slopes
\* and a base > 0 other than 1.
C8_EachFaultHasItsMessage ==
    ret.op = "Log.validate" =>
        /\ log.base = R(1) =>
              (~ret.res.ok /\ ret.res.kind = "BaseCannotBe1")
        /\ ClaimLinSlopeZero(log) =>
              (~ret.res.ok /\ ret.res.kind = "LinearSlopeCannotBe0")
        /\ ClaimLogSlopeZero(log) =>
              (~ret.res.ok /\ ret.res.kind = "LogSlopeCannotBe0")
        /\ RLe(log.base, R(0)) => ~ret.res.ok
        /\ ClaimLogValid(log) => ret.res.ok

\* The fault validate() finds in one channel vector, "none" if it finds none.
ClaimChannelFault(p) ==
    IF Len(p) # 4 THEN "Expecting4Parameters"
    ELSE IF p[3] = R(0) THEN "LinearSlopeCannotBe0"
    ELSE IF p[1] = R(0) THEN "LogSlopeCannotBe0"
    ELSE "none"

ClaimBaseFault(base) ==
    IF base = R(1) THEN "BaseCannotBe1"
    ELSE IF RLe(base, R(0)) THEN "BaseMustBeGreaterThan0"
    ELSE "none"

ClaimFirstFault(L) ==
    LET faults == <<ClaimChannelFault(L.red), ClaimChannelFault(L.green),
                    ClaimChannelFault(L.blue), ClaimBaseFault(L.base)>>
        at == { i \in 1..4 : faults[i] # "none" }
    IN  IF at = {} THEN "none"
        ELSE faults[CHOOSE i \in at : \A j \in at : i <= j]

\* C8 amended: validate() succeeds exactly for 4 parameters per channel,
\* non-zero slopes and a base > 0 other than 1, in both directions; otherwise
\* it fails with the message of the first fault in the order red, green, blue
\* channel (within a channel: parameter count, linear slope, log slope) and
\* then the base (base = 1, base <= 0), so that each of the three messages is
\* raised when its fault is the first one in that order.
C8_FirstFaultHasItsMessage ==
    ret.op = "Log.validate" =>
        /\ ret.res.ok <=> ClaimLogValid(log)
        /\ ~ret.res.ok => ret.res.kind = ClaimFirstFault(log)
        /\ RLe(log.base, R(0)) => ~ret.res.ok

\* Base 1 together with a zero linear slope: the slope is what is reported.
C8_Witness ==
    /\ ret.op = "Log.validate"
    /\ log.direction = TRANSFORM_DIR_INVERSE
    /\ log.base = R(1)
    /\ ClaimFourParams(log)
    /\ log.green[3] = R(0)
    /\ ~ret.res.ok
    /\ ret.res.kind = "LinearSlopeCannotBe0"

ClaimWithin(x, lo, hi) == RLe(lo, x) /\ RLe(x, hi)

ClaimGammaChannels(G) == {G.red, G.green, G.blue, G.alpha}

ClaimGammaVectorValid(G, p) ==
    IF ClaimBasic(G)
    THEN Len(p) = 1 /\ ClaimWithin(p[1], Rat(1, 100), R(100))
    ELSE /\ Len(p) = 2
         /\ ClaimWithin(p[1], R(1), R(10))
         /\ ClaimWithin(p[2], R(0), Rat(9, 10))

ClaimLowerBounds(G) ==
    IF ClaimBasic(G) THEN <<Rat(1, 100)>> ELSE <<R(1), R(0)>>

ClaimUpperBounds(G) ==
    IF ClaimBasic(G) THEN <<R(100)>> ELSE <<R(10), Rat(9, 10)>>

\* C9: validate() succeeds iff each of the four channel vectors has exactly 1
\* parameter within [0.01, 100] (Basic) or exactly 2 with the gamma within
\* [1, 10] and the offset within [0, 0.9] (Moncurve), bounds included;
\* otherwise it fails with "Wrong number of parameters" for a channel of the
\* wrong size, or with a message naming a parameter of the operation and the
\* lower or upper bound that it violates.
C9_GammaValidate ==
    ret.op = "Gamma.validate" =>
        /\ ret.res.ok <=>
              \A p \in ClaimGammaChannels(gamma) :
                  ClaimGammaVectorValid(gamma, p)
        /\ ~ret.res.ok =>
              \/ /\ ret.res.kind = "WrongNumberOfParameters"
                 /\ \E p \in ClaimGammaChannels(gamma) :
                       Len(p) # Len(ClaimLowerBounds(gamma))
              \/ /\ ret.res.kind = "LessThanLowerBound"
                 /\ \E p \in ClaimGammaChannels(gamma) :
                    \E i \in 1..Len(ClaimLowerBounds(gamma)) :
                       /\ i <= Len(p)
                       /\ ret.res.value = p[i]
                       /\ ret.res.bound = ClaimLowerBounds(gamma)[i]
                       /\ RLt(p[i], ClaimLowerBounds(gamma)[i])
              \/ /\ ret.res.kind = "GreaterThanUpperBound"
                 /\ \E p \in ClaimGammaChannels(gamma) :
                    \E i \in 1..Len(ClaimUpperBounds(gamma)) :
                       /\ i <= Len(p)
                       /\ ret.res.value = p[i]
                       /\ ret.res.bound = ClaimUpperBounds(gamma)[i]
                       /\ RLt(ClaimUpperBounds(gamma)[i], p[i])

\* A Moncurve operation on its upper bounds {10, 0.9} in every channel passes.
C9_Witness ==
    /\ ret.op = "Gamma.validate"
    /\ gamma.style = MONCURVE_FWD
    /\ gamma.red = <<R(10), Rat(9, 10)>>
    /\ gamma.green = <<R(1), R(0)>>
    /\ gamma.blue = <<R(1), R(0)>>
    /\ gamma.alpha = <<R(1), R(0)>>
    /\ ret.res.ok

ClaimOpposite ==
    { <<TRANSFORM_DIR_FORWARD, TRANSFORM_DIR_INVERSE>>,
      <<TRANSFORM_DIR_INVERSE, TRANSFORM_DIR_FORWARD>> }

ClaimIsLogInverse(L, out) ==
    /\ <<L.direction, out.direction>> \in ClaimOpposite
    /\ out.base = L.base
    /\ out.red = L.red /\ out.green = L.green /\ out.blue = L.blue

\* C10 as stated: inverse() of any Forward or Inverse LogOpData, whatever its
\* base and parameters, returns the operation of the opposite direction with
\* the same base and red, green and blue parameters, and raises no error.
C10_LogInverseNeverFails ==
    ret.op = "Log.inverse" =>
        /\ ret.res.ok
        /\ ClaimIsLogInverse(log, ret.res.out)

\* C10 amended: inverse() of a Forward or Inverse LogOpData that passes
\* validate() returns the operation of the opposite direction with the same
\* base and red, green and blue parameters and raises no error; on one that
\* fails validate() it raises a validation error and returns nothing.
C10_LogInverseOfValid ==
    ret.op = "Log.inverse" =>
        IF ClaimLogValid(log)
        THEN ret.res.ok /\ ClaimIsLogInverse(log, ret.res.out)
        ELSE ~ret.res.ok

C10_Witness ==
    /\ ret.op = "Log.inverse"
    /\ log.direction = TRANSFORM_DIR_FORWARD
    /\ log.base = R(10)
    /\ log.red # log.green
    /\ ret.res.ok
    /\ ret.res.out.direction = TRANSFORM_DIR_INVERSE
    /\ ret.res.out.green = log.green


ClaimFinalized(id) == id # NoCacheID

\* C11: for two finalized Gamma operations, and for two finalized Log
\* operations, A == B holds if and only if the two cacheIDs are equal.
C11_EqualsAgreesWithCacheID ==
    /\ (ret.op = "Gamma.equals" /\ ClaimFinalized(cacheID.gamma)
            /\ ClaimFinalized(cacheID.gammaB)) =>
          (ret.val <=> cacheID.gamma = cacheID.gammaB)
    /\ (ret.op = "Log.equals" /\ ClaimFinalized(cacheID.log)
            /\ ClaimFinalized(cacheID.logB)) =>
          (ret.val <=> cacheID.log = cacheID.logB)

\* C12: a mutator called on a finalized operation invalidates its cacheID:
\* in every state reached by finalize() and mutator calls, a cacheID that is
\* stored is the serialization of the operation's current style and
\* parameters.
C12_StoredCacheIDIsCurrent ==
    ClaimFinalized(cacheID.gamma) =>
        cacheID.gamma = GammaOpData_cacheIDStream(gamma)

ClaimInside(t, o) == pc[t].on = o /\ pc[t].at # "idle"

ClaimWriting(t, o) == pc[t].on = o /\ pc[t].at = "assigning"

\* C13: concurrent finalize() calls on one instance exclude each other from
\* validation through the cacheID assignment; the mutex is released on a
\* normal and on an exceptional exit; the stored cacheID is never seen
\* partly written by a caller, and once a call has returned normally it is
\* the one serialization of the instance, whatever the interleaving.
C13_FinalizeMutuallyExclusive ==
    \A o \in Shared :
        /\ \A t1 \in Threads, t2 \in Threads :
              (ClaimInside(t1, o) /\ ClaimInside(t2, o)) => t1 = t2
        /\ \A t \in Threads : mutex[o] = t => ClaimInside(t, o)
        /\ (\A t \in Threads : ~ClaimInside(t, o)) => mutex[o] = NoThread
        /\ cacheID[o] = TornCacheID =>
              /\ \E t \in Threads : ClaimWriting(t, o)
              /\ \A t \in Threads : ClaimInside(t, o) => ClaimWriting(t, o)
        /\ cacheID[o] \in
              {NoCacheID, TornCacheID, SharedCacheIDStream(o)}
        /\ (ret.op = "finalize" /\ ret.on = o /\ ret.res.ok) =>
              cacheID[o] \in {TornCacheID, SharedCacheIDStream(o)}

\* A second caller is inside finalize() on the object on which the first
\* has returned, and one on which the first has thrown.
C13_Witness ==
    /\ ret.op = "finalize" /\ ret.by = "t1" /\ ret.on = "log" /\ ~ret.res.ok
    /\ pc["t2"] = [on |-> "log", at |-> "locked"]
    /\ pc["t1"] = [on |-> "gamma", at |-> "built"]
    /\ cacheID.gamma = GammaOpData_cacheIDStream(gamma)

ClaimIsTagLine(l) ==
    /\ ~l.hash /\ Len(l.parts) > 0 /\ l.parts[1].k = "word"
    /\ l.parts[1].w \in {"LUT_1D_SIZE", "LUT_3D_SIZE", "LUT_1D_INPUT_RANGE",
                         "LUT_3D_INPUT_RANGE"}

ClaimIsDataLine(l) ==
    /\ ~l.hash /\ Len(l.parts) = 3
    /\ \A i \in 1..3 : l.parts[i].k = "num"

ClaimWithout(lines, p) ==
    SubSeq(lines, 1, p - 1) \o SubSeq(lines, p + 1, Len(lines))

ClaimReads(lines) ==
    read([good |-> TRUE, name |-> "lut.cube", lines |-> lines], "lut.cube").ok

\* Line p is a comment put into an otherwise valid file after its tag lines.
ClaimCommentAfterHeader(lines, p) ==
    /\ lines[p].hash
    /\ \E q \in 1..(p - 1) : ClaimIsTagLine(lines[q])
    /\ \A q \in (p + 1)..Len(lines) : ~ClaimIsTagLine(lines[q])
    /\ ClaimReads(ClaimWithout(lines, p))

\* C14: a '#' comment line put after the header tag lines of an otherwise
\* valid file makes read() fail, before the first data triplet as well as
\* between data triplets.
C14_CommentAfterHeaderFails ==
    (ret.op = "Cube.read" /\ file.good) =>
        \A p \in 1..Len(file.lines) :
            ClaimCommentAfterHeader(file.lines, p) => ~ret.res.ok

ClaimSizeLines(lines, word) ==
    { q \in 1..Len(lines) :
        /\ ClaimIsTagLine(lines[q]) /\ lines[q].parts[1].w = word
        /\ Len(lines[q].parts) = 2 /\ lines[q].parts[2].k = "num" }

\* The size a file declares with the given tag, 0 when it has no such tag.
ClaimDeclared(lines, word) ==
    IF ClaimSizeLines(lines, word) = {} THEN 0
    ELSE lines[CHOOSE q \in ClaimSizeLines(lines, word) : TRUE].parts[2].v

ClaimTriplets(lines) ==
    Cardinality({ q \in 1..Len(lines) : ClaimIsDataLine(lines[q]) })

\* What the header declares: n, n^3, or n1 + n3^3 data triplets.
ClaimExpected(lines) ==
    ClaimDeclared(lines, "LUT_1D_SIZE")
        + ClaimDeclared(lines, "LUT_3D_SIZE")
            * ClaimDeclared(lines, "LUT_3D_SIZE")
            * ClaimDeclared(lines, "LUT_3D_SIZE")

\* Tag lines, then data lines, and at least one size tag.
ClaimHeaderThenData(lines) ==
    /\ \A q \in 1..Len(lines) :
          ClaimIsTagLine(lines[q]) \/ ClaimIsDataLine(lines[q])
    /\ \A q \in 1..Len(lines), r \in 1..Len(lines) :
          (ClaimIsTagLine(lines[q]) /\ ClaimIsDataLine(lines[r])) => q < r
    /\ ClaimSizeLines(lines, "LUT_1D_SIZE")
          \cup ClaimSizeLines(lines, "LUT_3D_SIZE") # {}

\* C15: read() fails for every file whose number of data triplets differs
\* from what its header declares, with too few as with too many triplets.
C15_CountMismatchFails ==
    (ret.op = "Cube.read" /\ file.good /\ ClaimHeaderThenData(file.lines)
        /\ ClaimTriplets(file.lines) # ClaimExpected(file.lines)) =>
        ~ret.res.ok

\* The values of the data lines of a file from line i on, in file order.
RECURSIVE ClaimValues(_, _)
ClaimValues(lines, i) ==
    IF i > Len(lines) THEN << >>
    ELSE IF ClaimIsDataLine(lines[i])
    THEN << lines[i].parts[1].v, lines[i].parts[2].v, lines[i].parts[3].v >>
             \o ClaimValues(lines, i + 1)
    ELSE ClaimValues(lines, i + 1)

ClaimRangeLines(lines, word) ==
    { q \in 1..Len(lines) :
        ClaimIsTagLine(lines[q]) /\ lines[q].parts[1].w = word }

\* The range a file declares with the given tag, [0, 1] when it has none.
ClaimRange(lines, word) ==
    IF ClaimRangeLines(lines, word) = {} THEN <<0, 1>>
    ELSE LET l == lines[CHOOSE q \in ClaimRangeLines(lines, word) : TRUE]
         IN  << l.parts[2].v, l.parts[3].v >>

\* A size tag with one integer, or a range tag with two numbers.
ClaimWellFormedTag(l) ==
    IF l.parts[1].w \in {"LUT_1D_SIZE", "LUT_3D_SIZE"}
    THEN Len(l.parts) = 2 /\ l.parts[2].k = "num" /\ l.parts[2].int
    ELSE Len(l.parts) = 3 /\ l.parts[2].k = "num" /\ l.parts[3].k = "num"

\* Tag lines, each well formed and each tag once, then data lines, as many
\* as the size tags declare.
ClaimWellFormed(lines) ==
    /\ ClaimHeaderThenData(lines)
    /\ \A q \in 1..Len(lines) :
          ClaimIsTagLine(lines[q]) => ClaimWellFormedTag(lines[q])
    /\ \A q \in 1..Len(lines), r \in 1..Len(lines) :
          (ClaimIsTagLine(lines[q]) /\ ClaimIsTagLine(lines[r])
              /\ lines[q].parts[1].w = lines[r].parts[1].w) => q = r
    /\ ClaimTriplets(lines) = ClaimExpected(lines)

\* C16: a well-formed file declaring LUT_1D_SIZE n > 0 followed by exactly n
\* triplets is read into a 1-D LUT of dimension n holding the triplets in
\* file order, with the declared LUT_1D_INPUT_RANGE or [0, 1] when the tag
\* is absent; the 3-D range is [0, 1] when LUT_3D_INPUT_RANGE is absent.
C16_Read1D ==
    (ret.op = "Cube.read" /\ file.good /\ ClaimWellFormed(file.lines)) =>
        /\ (ClaimDeclared(file.lines, "LUT_1D_SIZE") > 0
              /\ ClaimDeclared(file.lines, "LUT_3D_SIZE") = 0) =>
              /\ ret.res.ok
              /\ ret.res.lut1D.dimension
                    = ClaimDeclared(file.lines, "LUT_1D_SIZE")
              /\ ret.res.lut1D.array = ClaimValues(file.lines, 1)
              /\ << ret.res.range1d_min, ret.res.range1d_max >>
                    = ClaimRange(file.lines, "LUT_1D_INPUT_RANGE")
        /\ ClaimRangeLines(file.lines, "LUT_3D_INPUT_RANGE") = {} =>
              /\ ret.res.ok
              /\ << ret.res.range3d_min, ret.res.range3d_max >> = <<0, 1>>

\* The file of two entries with a declared range has been read.
C16_Witness ==
    /\ ret.op = "Cube.read"
    /\ file.lines = << Size1DLine(2), Range1DLine(0, 2), TripletLine(1),
                       TripletLine(2) >>
    /\ ret.res.ok
    /\ ret.res.lut1D.array = <<1, 0, 1, 2, 0, 1>>
    /\ ret.res.range1d_max = 2

ClaimPostParse(error) ==
    error[1] \in { "Incorrect number of lut1d entries. ",
                   "Incorrect number of lut3d entries. ",
                   "Lut type (1D/3D) unspecified." }

\* The lines before line p are read without an error and line p is not.
ClaimFirstBadLine(lines, name, p) ==
    /\ p \in 1..Len(lines)
    /\ ReadLines(ReadLocals, SubSeq(lines, 1, p - 1), name, 1).thrown.ok
    /\ ~ReadLines(ReadLocals, SubSeq(lines, 1, p), name, 1).thrown.ok

\* C17: every parse error names the file; the error of a bad line carries
\* the 1-based number and the text of that line; a consistency failure found
\* after parsing (a count mismatch, no size tag) carries neither.
C17_ErrorNamesFileAndLine ==
    (ret.op = "Cube.read" /\ file.good /\ ~ret.res.ok) =>
        LET w == ret.res.what
        IN  /\ w.head[2] = file.name
            /\ IF ClaimPostParse(w.error)
               THEN /\ w.at = << >>
                    /\ ReadLines(ReadLocals, file.lines, file.name, 1).thrown.ok
               ELSE /\ Len(w.at) = 5
                    /\ ClaimFirstBadLine(file.lines, file.name, w.at[2])
                    /\ w.at[4] = file.lines[w.at[2]]

\* A comment on the fourth line, after two data lines, has been refused
\* with its line number and its text.
C17_Witness ==
    /\ ret.op = "Cube.read" /\ file.good /\ ~ret.res.ok
    /\ file.lines = << Size1DLine(2), TripletLine(1), TripletLine(2),
                       CommentLine >>
    /\ ret.res.what.head[2] = "lut.cube"
    /\ Len(ret.res.what.at) = 5
    /\ ret.res.what.at[2] = 4
    /\ ret.res.what.at[4] = CommentLine
    /\ ret.res.what.error = <<"Comments not allowed after header.">>

\* A file with one data line too few has been refused after parsing, with
\* no line number and no line text.
C17_WitnessPostParse ==
    /\ ret.op = "Cube.read" /\ file.good /\ ~ret.res.ok
    /\ file.lines = << Size1DLine(2), TripletLine(1) >>
    /\ ret.res.what.head[2] = "lut.cube"
    /\ ret.res.what.at = << >>
    /\ ret.res.what.error[1] = "Incorrect number of lut1d entries. "

\* C18: Gamma isNoOp() holds exactly when isIdentity() holds and the style
\* is not clamping: a Basic Gamma is never a no-op, a Moncurve Gamma whose
\* four channels are {1, 0} is one, and no Gamma that is not an identity is
\* one.  Log isNoOp() is false for every Log operation.
C18_NoOpIsIdentityNotClamping ==
    /\ ret.op = "Gamma.isNoOp" =>
          /\ ret.val = (ret.isIdentity /\ ~ClaimBasic(gamma))
          /\ ClaimBasic(gamma) => ~ret.val
          /\ (ClaimMoncurve(gamma) /\ ClaimGammaIdentity(gamma)) => ret.val
          /\ ret.val => ret.isIdentity
    /\ ret.op = "Log.isNoOp" => ~ret.val

\* isNoOp() has returned true for the Moncurve identity.
C18_Witness ==
    /\ ret.op = "Gamma.isNoOp"
    /\ gamma.style = MONCURVE_REV
    /\ ClaimGammaIdentity(gamma)
    /\ ret.val

\* isNoOp() has returned false for a Basic identity.
C18_WitnessBasic ==
    /\ ret.op = "Gamma.isNoOp"
    /\ gamma.style = BASIC_FWD
    /\ ClaimGammaIdentity(gamma)
    /\ ret.isIdentity /\ ~ret.val

\* C19: Gamma isIdentity() is true only when all four channel vectors are
\* equal to each other and to the identity vector of the style, {1} for
\* Basic and {1, 0} for Moncurve.
C19_IdentityOnlyForIdentityVectors ==
    (ret.op = "Gamma.isIdentity" /\ ret.val) => ClaimGammaIdentity(gamma)

\* Each vector has the number of parameters of the style.
ClaimSized(G) ==
    \A p \in ClaimGammaChannels(G) : Len(p) = Len(ClaimIdentityVector(G))

\* C19 for vectors of the size of the style: isIdentity() is true exactly
\* when each of the four vectors is the identity vector of the style.
C19_IdentityOfSizedVectors ==
    (ret.op = "Gamma.isIdentity" /\ ClaimSized(gamma)) =>
        ret.val = ClaimGammaIdentity(gamma)

\* C20: A.isInverse(B) is true if and only if the styles of A and B are the
\* two opposite members of one family and all four channel vectors of A
\* equal those of B; it is false for A with itself and for two operations of
\* the same style, and true for A with A.inverse().
C20_IsInverseIffOppositeAndEqual ==
    /\ ret.op = "Gamma.isInverse" =>
          /\ ret.ab = (/\ <<gamma.style, gammaB.style>> \in ClaimCounterpart
                       /\ ClaimSameParams(gamma, gammaB))
          /\ gamma.style = gammaB.style => ~ret.ab
    /\ ret.op = "Gamma.isInverse(A, A)" => ~ret.val
    /\ ret.op = "Gamma.isInverse(A, A.inverse())" => ret.val

\* Two BasicForward operations of gamma 1 have been found not to be
\* inverses of each other.
C20_Witness ==
    /\ ret.op = "Gamma.isInverse"
    /\ ClaimPlain(gamma, BASIC_FWD, R(1))
    /\ ClaimPlain(gammaB, BASIC_FWD, R(1))
    /\ ~ret.ab

\* Two operations of opposite styles that differ in alpha only have been
\* found not to be inverses, and two with the same vectors to be.
C20_WitnessAlpha ==
    /\ ret.op = "Gamma.isInverse"
    /\ <<gamma.style, gammaB.style>> \in ClaimCounterpart
    /\ gamma.red = gammaB.red /\ gamma.green = gammaB.green
    /\ gamma.blue = gammaB.blue /\ gamma.alpha # gammaB.alpha
    /\ ~ret.ab


ClaimLogChannelsAlike(L) == L.red = L.green /\ L.red = L.blue

\* C21: Log A.isInverse(B) is true only when B has the opposite direction,
\* the three channels of A are alike and so are those of B, and A and B have
\* the same base and the same red parameters; for a valid A,
\* A.isInverse(A.inverse()) holds if and only if the red, green and blue
\* vectors of A are all equal.
C21_LogIsInverseConservative ==
    /\ (ret.op = "Log.isInverse" /\ ret.ab) =>
          /\ <<log.direction, logB.direction>> \in ClaimOpposite
          /\ ClaimLogChannelsAlike(log) /\ ClaimLogChannelsAlike(logB)
          /\ log.base = logB.base
          /\ log.red = logB.red
    /\ (ret.op = "Log.isInverse(A, A.inverse())" /\ ClaimLogValid(log)) =>
          /\ ret.res.ok
          /\ ret.val = ClaimLogChannelsAlike(log)

\* A valid operation whose green channel is set apart has been found not to
\* be the inverse of its own inverse.
C21_Witness ==
    /\ ret.op = "Log.isInverse(A, A.inverse())"
    /\ ClaimLogValid(log)
    /\ log.red # log.green
    /\ ret.res.ok
    /\ ~ret.val

\* Two operations with channels alike, the same base and opposite
\* directions have been found to be inverses.
C21_WitnessPair ==
    /\ ret.op = "Log.isInverse"
    /\ ClaimLogChannelsAlike(log) /\ log.red = logB.red
    /\ log.base = R(10)
    /\ ret.ab


\* C22: clone() and inverse() of a Gamma and of a Log operation leave the
\* receiver as it was, and the object they return is independent of it: no
\* setter called on the result changes the source, and no setter called on
\* the source changes the result.
C22_CloneIsIndependent ==
    [][ /\ ret'.op \in {"Gamma.clone", "Gamma.inverse"} => gamma' = gamma
        /\ ret'.op \in {"Log.clone", "Log.inverse"} => log' = log
        /\ ret'.op = "Gamma.result.set" => gamma' = gamma
        /\ ret'.op = "Gamma.source.set" => gammaB' = gammaB
        /\ ret'.op = "Log.result.set" => log' = log
        /\ ret'.op = "Log.source.set" => logB' = logB ]_vars

\* A setter has been called on the inverse of the Moncurve operation, which
\* still has the style and the metadata it was constructed with.
C22_Witness ==
    /\ ret.op = "Gamma.result.set"
    /\ gamma.style = MONCURVE_FWD /\ gamma.red = <<R(2), Rat(1, 10)>>
    /\ gamma.meta = "metaB"
    /\ gammaB.style = MONCURVE_REV /\ gammaB.red = CloneVec
    /\ gammaB.meta = "metaB"


ClaimIndividualFlags ==
    { OPTIMIZATION_IDENTITY, OPTIMIZATION_PAIR_IDENTITY_CLAMP,
      OPTIMIZATION_PAIR_IDENTITY_LUT1D, OPTIMIZATION_PAIR_IDENTITY_LUT3D,
      OPTIMIZATION_PAIR_IDENTITY_GAMMA, OPTIMIZATION_PAIR_IDENTITY_LOG,
      OPTIMIZATION_COMP_MATRIX, OPTIMIZATION_COMP_LUT1D,
      OPTIMIZATION_COMP_LUT3D, OPTIMIZATION_COMP_GAMMA,
      OPTIMIZATION_COMP_SEPARABLE_PREFIX }

\* Every flag of a is a flag of b, and b has one more.
ClaimStrictSubset(a, b) == BitAnd(a, b) = a /\ a # b

ClaimNested ==
    /\ ClaimStrictSubset(OPTIMIZATION_LOSSLESS, OPTIMIZATION_VERY_GOOD)
    /\ ClaimStrictSubset(OPTIMIZATION_VERY_GOOD, OPTIMIZATION_GOOD)
    /\ ClaimStrictSubset(OPTIMIZATION_GOOD, OPTIMIZATION_DRAFT)
    /\ \A f \in ClaimIndividualFlags : BitAnd(OPTIMIZATION_DRAFT, f) = f

\* C23 as stated: LOSSLESS, VERY_GOOD, GOOD and DRAFT are strictly nested,
\* DRAFT contains every individual flag, and every bit set in any of the
\* four grades is one of the individual flags.
C23_GradesAreUnionsOfFlags ==
    ret.op = "Flags.has" =>
        /\ ClaimNested
        /\ (ret.grade \in {"LOSSLESS", "VERY_GOOD", "GOOD", "DRAFT"}
               /\ ret.val) => ret.flag \in ClaimIndividualFlags

\* C23 amended: LOSSLESS, VERY_GOOD, GOOD and DRAFT are strictly nested and
\* DRAFT contains every individual flag; LOSSLESS, VERY_GOOD and GOOD are
\* unions of individual flags, while DRAFT is OPTIMIZATION_ALL, all sixteen
\* bits, five of which are no individual flag.
C23_GradesNestedDraftIsAll ==
    ret.op = "Flags.has" =>
        /\ ClaimNested
        /\ (ret.grade \in {"LOSSLESS", "VERY_GOOD", "GOOD"} /\ ret.val) =>
              ret.flag \in ClaimIndividualFlags
        /\ ret.grade = "DRAFT" => ret.val
        /\ Cardinality({ b \in 0..(FlagBits - 1) :
                           Pow2(b) \notin ClaimIndividualFlags }) = 5

\* DRAFT has been found to hold a bit that is no individual flag.
C23_Witness ==
    /\ ret.op = "Flags.has"
    /\ ret.grade = "DRAFT"
    /\ ret.flag = 2048
    /\ ret.val


ClaimTypes(seq) == [i \in 1..Len(seq) |-> seq[i].type]

\* What is appended: the ops past the ones that were there.
ClaimAppended(before, after) == SubSeq(after, Len(before) + 1, Len(after))

\* The requested direction and the direction of the file transform are the
\* same (Forward), differ (Inverse), or one of them is unknown.
ClaimCombined(dir, ftDirection) ==
    IF TRANSFORM_DIR_UNKNOWN \in {dir, ftDirection} THEN "Unknown"
    ELSE IF dir = ftDirection THEN "Forward" ELSE "Inverse"

ClaimHasBoth(cf) ==
    cf.ok /\ cf.lut1D.dimension > 0 /\ cf.lut3D # [dimension |-> 0]

\* C24: for a file holding a 1-D and a 3-D LUT buildFileOps appends, for the
\* Forward combined direction, the range scaling of the 1-D range, the
\* Lut1D, the range scaling of the 3-D range and the Lut3D in this order,
\* and for the Inverse combined direction the same in the reverse order;
\* for an Unknown combined direction it throws and appends no op.
C24_BuildFileOpsOrder ==
    [][ (ret'.op = "Cube.buildFileOps" /\ ClaimHasBoth(cachedFile)) =>
          LET new == ClaimAppended(ops, ops')
              combined == ClaimCombined(ret'.dir, ret'.ftDirection)
          IN  /\ SubSeq(ops', 1, Len(ops)) = ops
              /\ combined = "Forward" =>
                    /\ ret'.res.ok
                    /\ ClaimTypes(new) = <<"MinMax", "Lut1D", "MinMax", "Lut3D">>
                    /\ <<new[1].min, new[1].max>>
                          = <<cachedFile.range1d_min, cachedFile.range1d_max>>
                    /\ <<new[3].min, new[3].max>>
                          = <<cachedFile.range3d_min, cachedFile.range3d_max>>
              /\ combined = "Inverse" =>
                    /\ ret'.res.ok
                    /\ ClaimTypes(new) = <<"Lut3D", "MinMax", "Lut1D", "MinMax">>
                    /\ <<new[2].min, new[2].max>>
                          = <<cachedFile.range3d_min, cachedFile.range3d_max>>
                    /\ <<new[4].min, new[4].max>>
                          = <<cachedFile.range1d_min, cachedFile.range1d_max>>
              /\ combined = "Unknown" => ~ret'.res.ok /\ new = << >>
      ]_vars

\* The four ops of a file with two tables have been appended after the
\* FileNoOp for the inverse direction.
C24_Witness ==
    /\ ret.op = "Cube.buildFileOps"
    /\ ret.dir = TRANSFORM_DIR_FORWARD
    /\ ret.ftDirection = TRANSFORM_DIR_INVERSE
    /\ ClaimHasBoth(cachedFile)
    /\ cachedFile.range1d_max = 2 /\ cachedFile.range3d_max = 1
    /\ ClaimTypes(ops) = <<"FileNoOp", "Lut3D", "MinMax", "Lut1D", "MinMax">>
    /\ ops[3].max = 1 /\ ops[5].max = 2


ClaimStoresBasic(out, style, g) ==
    /\ out.style = style
    /\ out.red = <<g>> /\ out.green = <<g>> /\ out.blue = <<g>>

\* What the claim has compose store for the product prod of the effective
\* exponents.
ClaimComposeStores(out, prod) ==
    LET rev == RLt(prod, R(1))
        g == IF rev THEN RInv(prod) ELSE prod
    IN  ClaimStoresBasic(out, IF rev THEN BASIC_REV ELSE BASIC_FWD,
                         IF RNearOne(g) THEN R(1) ELSE g)

ClaimComposed == ret.op = "Gamma.compose.validate" /\ ret.res.ok

\* C25 as stated: whatever the operands, the operation compose() returns
\* stores a gamma >= 1 on red, green and blue.
C25_ComposeAlwaysStoresAtLeastOne ==
    ClaimComposed =>
        /\ ClaimComposeStores(ret.res.out, ClaimProduct(gamma, gammaB))
        /\ ~RLt(ret.res.out.red[1], R(1))

\* C25 amended: the operation compose() returns stores, as BasicReverse, the
\* reciprocal of a product of the effective exponents below 1 and, as
\* BasicForward, any other product, with 1 in place of a value within 1e-6
\* of 1; the stored gamma is >= 1 on red, green and blue when the stored
\* gammas of both operands are positive.
C25_ComposeOfPositiveStoresAtLeastOne ==
    ClaimComposed =>
        /\ ClaimComposeStores(ret.res.out, ClaimProduct(gamma, gammaB))
        /\ (RLt(R(0), gamma.red[1]) /\ RLt(R(0), gammaB.red[1])) =>
              ~RLt(ret.res.out.red[1], R(1))

\* Fwd(1/2) composed with Fwd(1/2): the product 1/4 is stored as Rev(4).
C25_Witness ==
    /\ ClaimComposed
    /\ gamma.style = BASIC_FWD /\ gamma.red = <<Rat(1, 2)>>
    /\ gammaB.style = BASIC_FWD /\ gammaB.red = <<Rat(1, 2)>>
    /\ ClaimStoresBasic(ret.res.out, BASIC_REV, R(4))

\* Fwd(1) composed with Fwd(1000002/1000001) is stored as Fwd(1).
C25_WitnessSnap ==
    /\ ClaimComposed
    /\ gamma.style = BASIC_FWD /\ gamma.red = <<R(1)>>
    /\ gammaB.style = BASIC_FWD /\ gammaB.red = <<NearOne>>
    /\ ClaimStoresBasic(ret.res.out, BASIC_FWD, R(1))


\* C26: for two operations A and B that pass validate() and with
\* A.mayCompose(B), the operation A.compose(B) returns passes validate() and
\* may be composed with every further valid Basic operand.
C26_ComposeIsClosedOverValid ==
    ( /\ ret.op = "Gamma.compose.validate"
      /\ GammaOpData_validate(gamma).ok
      /\ GammaOpData_validate(gammaB).ok
      /\ mayCompose(gamma, gammaB) ) =>
        /\ ret.res.ok
        /\ ret.validate.ok
        /\ ret.mayCompose = {TRUE}

\* The part of C26 that holds: the operation returned has one parameter per
\* channel and may be composed with every further valid Basic operand; it
\* passes validate() when the product of the effective exponents lies within
\* [0.01, 100].
C26_ComposeMayComposeFurther ==
    ( /\ ret.op = "Gamma.compose.validate"
      /\ GammaOpData_validate(gamma).ok
      /\ GammaOpData_validate(gammaB).ok
      /\ mayCompose(gamma, gammaB) ) =>
        /\ ret.res.ok
        /\ ret.mayCompose = {TRUE}
        /\ ret.validate.ok <=>
              /\ ~RLt(ClaimProduct(gamma, gammaB), Rat(1, 100))
              /\ ~RLt(R(100), ClaimProduct(gamma, gammaB))

\* Fwd(100) composed with Fwd(100) is Fwd(10000), which validate() refuses.
C26_WitnessOutOfBounds ==
    /\ ret.op = "Gamma.compose.validate"
    /\ gamma.style = BASIC_FWD /\ gamma.red = <<R(100)>>
    /\ gammaB.style = BASIC_FWD /\ gammaB.red = <<R(100)>>
    /\ isNonChannelDependent(gammaB)
    /\ ret.res.ok /\ ret.res.out.red = <<R(10000)>>
    /\ ~ret.validate.ok /\ ret.validate.kind = "GreaterThanUpperBound"


ClaimStoresOne(out) ==
    /\ out.red = <<R(1)>> /\ out.green = <<R(1)>> /\ out.blue = <<R(1)>>
    /\ out.alpha = <<R(1)>>

\* C27: for a Basic operation A that passes validate() and is not channel-
\* dependent, A.compose(*A.inverse()) and A.inverse()->compose(A) each return
\* an operation for which isIdentity() is true and whose stored gamma is
\* exactly 1 on red, green, blue and alpha, whatever the rounding of the
\* reciprocal.
C27_ComposeWithInverseIsIdentity ==
    ( /\ ret.op = "Gamma.compose(A, A.inverse())"
      /\ gamma.style \in {BASIC_FWD, BASIC_REV}
      /\ GammaOpData_validate(gamma).ok
      /\ isNonChannelDependent(gamma) ) =>
        /\ ret.ab.ok /\ ret.ba.ok
        /\ ret.abIdentity /\ ret.baIdentity
        /\ ClaimStoresOne(ret.ab.out) /\ ClaimStoresOne(ret.ba.out)

\* Rev(3) composed with its inverse Fwd(3), the product rounded to just
\* below 1: the result is expressed as BasicReverse and stores exactly 1.
C27_Witness ==
    /\ ret.op = "Gamma.compose(A, A.inverse())"
    /\ gamma.style = BASIC_REV /\ gamma.red = <<R(3)>>
    /\ isNonChannelDependent(gamma)
    /\ RLt(ret.err, R(1))
    /\ ret.ab.ok /\ ret.ab.out.style = BASIC_REV
    /\ ret.abIdentity /\ ret.baIdentity
    /\ ClaimStoresOne(ret.ab.out) /\ ClaimStoresOne(ret.ba.out)


\* C28: whatever the GammaOpData and the setter calls made on it before,
\* after setStyle(s) followed by setParams(p) with p valid for the style s,
\* validate() succeeds, red, green and blue are p, alpha is the identity
\* vector of s and isNonChannelDependent() holds.
C28_SetStyleThenSetParams ==
    [][ ( /\ ret.op = "Gamma.setStyle"
          /\ ret'.op = "Gamma.setParams"
          /\ ClaimGammaVectorValid(gamma, ret'.p) ) =>
            /\ gamma'.style = ret.style
            /\ GammaOpData_validate(gamma').ok
            /\ gamma'.red = ret'.p
            /\ gamma'.green = ret'.p
            /\ gamma'.blue = ret'.p
            /\ gamma'.alpha = ClaimIdentityVector(gamma')
            /\ isNonChannelDependent(gamma')
      ]_vars

\* setParams({10, 0.9}) on a Moncurve operation: the four vectors are
\* replaced and the operation is valid.
C28_Witness ==
    /\ ret.op = "Gamma.setParams"
    /\ ret.p = <<R(10), Rat(9, 10)>>
    /\ gamma.style = MONCURVE_REV
    /\ gamma.red = ret.p /\ gamma.green = ret.p /\ gamma.blue = ret.p
    /\ gamma.alpha = <<R(1), R(0)>>
    /\ GammaOpData_validate(gamma).ok
    /\ isNonChannelDependent(gamma)


ClaimSharedValid(o) ==
    IF o = "gamma"
    THEN \A p \in ClaimGammaChannels(gamma) : ClaimGammaVectorValid(gamma, p)
    ELSE ClaimLogValid(log)

\* C29: finalize() on a Gamma or Log operation that fails validation throws
\* the validation error with the stored cacheID as it was when the call
\* began and with the mutex released; the mutex of an object is free
\* whenever no finalize() is under way on it, and a finalize() on an object
\* that is valid, corrected or not, goes on to store its cacheID and
\* returns normally.
C29_FailedFinalizeLeavesNoTrace ==
    /\ [][ \A t \in Threads :
             LET o == pc[t].on
                 o1 == pc'[t].on
             IN  /\ (pc[t] = Idle /\ pc'[t] # Idle) =>
                       /\ cacheID' = cacheID
                       /\ pc'[t].at = "locked" /\ mutex'[o1] = t
                 /\ (pc[t].at = "locked" /\ pc'[t] # pc[t]
                        /\ ~ClaimSharedValid(o)) =>
                       /\ pc'[t] = Idle
                       /\ ret'.op = "finalize" /\ ret'.on = o /\ ret'.by = t
                       /\ ~ret'.res.ok
                       /\ cacheID' = cacheID
                       /\ mutex'[o] = NoThread
                 /\ (pc[t].at = "locked" /\ pc'[t] # pc[t]
                        /\ ClaimSharedValid(o)) =>
                       pc'[t].at = "validated"
                 /\ (pc[t].at = "assigned" /\ pc'[t] # pc[t]) =>
                       /\ pc'[t] = Idle
                       /\ ret' = [op |-> "finalize", on |-> o, by |-> t,
                                  res |-> Ok]
                       /\ cacheID'[o] = SharedCacheIDStream(o)
                       /\ mutex'[o] = NoThread
         ]_vars
    /\ [](\A o \in Shared : NoFinalizeOn(o) => mutex[o] = NoThread)

\* The Gamma operation with red {101} has been corrected by setRedParams({3})
\* and the Log operation with base 1 by setBase(3); finalize() has returned
\* normally on both, the last time on the Log operation.
C29_Witness ==
    /\ ret = [op |-> "finalize", on |-> "log", by |-> "t2", res |-> Ok]
    /\ gamma.red = <<R(3)>> /\ gamma.green = <<R(2)>>
    /\ log.base = R(3)
    /\ cacheID.gamma = GammaOpData_cacheIDStream(gamma)
    /\ cacheID.log = LogOpData_cacheIDStream(log)
    /\ \A o \in Shared : mutex[o] = NoThread

\* finalize() has thrown on the Gamma operation spoiled by setRedParams({101})
\* after a successful finalize(): the cacheID stored by the earlier call is
\* still there.
C29_WitnessKeepsCacheID ==
    /\ ret.op = "finalize" /\ ret.on = "gamma" /\ ~ret.res.ok
    /\ gamma.red = <<R(101)>>
    /\ cacheID.gamma # NoCacheID
    /\ mutex.gamma = NoThread


\* The numbers a table of the cached file holds, none for an absent table.
ClaimTable1D(res) == IF res.lut1D = NoLut THEN << >> ELSE res.lut1D.array

ClaimTable3D(res) == IF res.lut3D = NoLut THEN << >> ELSE res.lut3D.redFastest

ClaimTagsOnce(lines) ==
    \A q \in 1..Len(lines), r \in 1..Len(lines) :
        (ClaimIsTagLine(lines[q]) /\ ClaimIsTagLine(lines[r])
            /\ lines[q].parts[1].w = lines[r].parts[1].w) => q = r

\* C30: when read() succeeds, wherever the tag lines stand among the data
\* lines, the 1-D table of a file declaring LUT_1D_SIZE n1 > 0 holds the
\* first n1 data triplets in file order, the 3-D table of a file declaring
\* LUT_3D_SIZE holds all the remaining ones in file order, and the two
\* tables together hold every data triplet of the file once.
C30_EveryTripletIsStoredOnce ==
    (ret.op = "Cube.read" /\ file.good /\ ret.res.ok
        /\ ClaimTagsOnce(file.lines)) =>
        LET n1 == ClaimDeclared(file.lines, "LUT_1D_SIZE")
            values == ClaimValues(file.lines, 1)
        IN  /\ n1 > 0 => ClaimTable1D(ret.res) = SubSeq(values, 1, 3 * n1)
            /\ ClaimSizeLines(file.lines, "LUT_3D_SIZE") # {} =>
                  ClaimTable3D(ret.res)
                      = SubSeq(values, 3 * n1 + 1, Len(values))
            /\ ClaimTable1D(ret.res) \o ClaimTable3D(ret.res) = values

\* What holds: the tables of a file read with success hold the first n1 data
\* triplets and, when LUT_3D_SIZE is declared, all the remaining ones; a
\* file that declares no LUT_3D_SIZE may hold more data triplets than n1,
\* and those are stored nowhere.
C30_TablesHoldLeadingTriplets ==
    (ret.op = "Cube.read" /\ file.good /\ ret.res.ok
        /\ ClaimTagsOnce(file.lines)) =>
        LET n1 == ClaimDeclared(file.lines, "LUT_1D_SIZE")
            values == ClaimValues(file.lines, 1)
        IN  /\ n1 > 0 => ClaimTable1D(ret.res) = SubSeq(values, 1, 3 * n1)
            /\ IF ClaimSizeLines(file.lines, "LUT_3D_SIZE") # {}
               THEN /\ ClaimTable3D(ret.res)
                          = SubSeq(values, 3 * n1 + 1, Len(values))
                    /\ ClaimTable1D(ret.res) \o ClaimTable3D(ret.res) = values
               ELSE ClaimTable3D(ret.res) = << >>

\* LUT_1D_SIZE 1, its triplet, LUT_3D_SIZE 1 and its triplet: each table
\* holds its own triplet.
C30_WitnessInterleaved ==
    /\ ret.op = "Cube.read"
    /\ file.lines = << Size1DLine(1), TripletLine(1), Size3DLine(1),
                       TripletLine(2) >>
    /\ ret.res.ok
    /\ ClaimTable1D(ret.res) = <<1, 0, 1>>
    /\ ClaimTable3D(ret.res) = <<2, 0, 1>>

\* LUT_1D_SIZE 1 followed by two triplets is read with success and the
\* second triplet is in neither table.
C30_WitnessDropped ==
    /\ ret.op = "Cube.read"
    /\ file.lines = << Size1DLine(1), TripletLine(1), TripletLine(2) >>
    /\ ret.res.ok
    /\ ClaimTable1D(ret.res) = <<1, 0, 1>>
    /\ ClaimTable3D(ret.res) = << >>

============================================================================
